---- MODULE Spec2Model ----
(***************************************************************************)
(* Verification model of the Tongue-Ai-Agent service: the LangGraph turn   *)
(* machine of agents/agent.py (agent_node, tool_node, should_continue,     *)
(* chat_node), the checkpointed message log it runs on, and the endpoint   *)
(* handlers of routes.py that drive it and turn its events into an SSE     *)
(* stream; and the long-term store of utils/memory_manager.py (user        *)
(* preferences, memories, session summaries, analysis records) with the    *)
(* context text built from it.                                             *)
(*                                                                         *)
(* Text is a sequence of characters; a multi-character token stands for a  *)
(* fixed piece of text that holds no character JSON escapes.               *)
(***************************************************************************)
EXTENDS Integers, Sequences, FiniteSets, TLC

\* ------------------------------------------------------------------ bounds
\* Requests (inbound HTTP calls), numbered in the order they arrive.
Reqs == {1, 2}
\* Tool-requesting responses the backend gives within one turn (Spec, SpecTurn).
MaxRounds == 1
\* The same, for the specification of the generate/tool loop (SpecLoop).
MaxLoopRounds == 9

Threads == {"s1", "s2"}
\* The thread id a tongue handler makes up from id(request) or id(file) when it
\* uses no session id of the caller.
PrivateThread(r) == IF r = 1 THEN "tongue-1" ELSE "tongue-2"

\* Python's None where the model needs a value for it (both None and "" are falsy).
None == "None"
Falsy(x) == x \in {None, ""}

\* ---------------------------------------------------------------- messages
BaseMessage(type, content, tool_calls, tool_call_id, turn) ==
    [type |-> type, content |-> content, tool_calls |-> tool_calls,
     tool_call_id |-> tool_call_id, turn |-> turn]

SystemMessage(content, turn) == BaseMessage("system", content, <<>>, "", turn)
HumanMessage(content, turn) == BaseMessage("human", content, <<>>, "", turn)
AIMessage(content, tool_calls, turn) == BaseMessage("ai", content, tool_calls, "", turn)
ToolMessage(content, tool_call_id, turn) == BaseMessage("tool", content, <<>>, tool_call_id, turn)

\* add_messages: the reducer of AgentState.messages appends the update.
add_messages(left, right) == left \o right

Last(s) == s[Len(s)]

\* any(isinstance(msg, SystemMessage) for msg in messages)
has_system_message(messages) == \E i \in 1..Len(messages) : messages[i].type = "system"

\* ------------------------------------------------------------------- JSON
\* Characters json.dumps writes with a backslash before them.
JsonEscaped == {"\"", "\\"}

RECURSIVE JsonEscape(_)
JsonEscape(s) ==
    IF s = <<>> THEN <<>>
    ELSE (IF Head(s) \in JsonEscaped THEN <<"\\", Head(s)>> ELSE <<Head(s)>>)
         \o JsonEscape(Tail(s))

JsonString(s) == <<"\"">> \o JsonEscape(s) \o <<"\"">>

\* json.dumps(result, ensure_ascii=False, indent=2) of a prediction dictionary.
json_dumps(result) ==
    <<"{">>
    \o (IF "error" \in DOMAIN result
        THEN <<"error:">> \o JsonString(result.error) \o <<",">>
        ELSE <<>>)
    \o <<"positive:", "[">> \o result.positive \o <<"]", ",">>
    \o <<"negative:", "[">> \o result.negative \o <<"]", ",">>
    \o <<"summary:", "{...}", "}">>

\* s holds t as a contiguous piece.
Contains(s, t) ==
    \E i \in 1..(Len(s) + 1) :
        /\ i + Len(t) - 1 <= Len(s)
        /\ SubSeq(s, i, i + Len(t) - 1) = t

\* ---------------------------------------------------- vision-predict tool
ErrorTexts == {<<"e">>, <<"e", "\"">>}

\* VisionPredictLoader._load: unavailable with a message, or available with the wrapper.
VisionStatuses ==
    {[is_available |-> TRUE, error_message |-> <<>>, analyze_function |-> "wrapper"]}
    \cup {[is_available |-> FALSE, error_message |-> e, analyze_function |-> None] :
            e \in ErrorTexts}

\* What one call of the analysis function does: a result, None, or an exception.
Outcomes ==
    {[kind |-> "ok", text |-> <<>>], [kind |-> "none", text |-> <<>>]}
    \cup {[kind |-> "raise", text |-> e] : e \in ErrorTexts}

ErrorResult(reason) ==
    [error |-> reason, positive |-> <<>>, negative |-> <<>>]

AnalysisResults == [positive |-> <<"FurYellow">>, negative |-> <<"Crack">>]

MsgUnavailable == <<"vision-predict module unavailable: ">>
MsgNoFunction == <<"vision-predict analyze function unavailable">>
MsgPredictFailed == <<"image prediction failed">>
MsgPredictError == <<"prediction raised: ">>

\* A handler without its try/except: an exception of the analysis function leaves
\* the handler.
predict_tongue_image_tool_no_except(status, outcome) ==
    IF ~status.is_available
    THEN ErrorResult(MsgUnavailable \o status.error_message)
    ELSE IF status.analyze_function = None
    THEN ErrorResult(MsgNoFunction)
    ELSE IF outcome.kind = "raise"
    THEN [exception |-> outcome.text]
    ELSE IF outcome.kind = "none"
    THEN ErrorResult(MsgPredictFailed)
    ELSE AnalysisResults

predict_tongue_image_tool(status, outcome) ==
    IF ~status.is_available
    THEN ErrorResult(MsgUnavailable \o status.error_message)
    ELSE IF status.analyze_function = None
    THEN ErrorResult(MsgNoFunction)
    ELSE IF outcome.kind = "raise"
    THEN ErrorResult(MsgPredictError \o outcome.text)
    ELSE IF outcome.kind = "none"
    THEN ErrorResult(MsgPredictFailed)
    ELSE AnalysisResults

\* Whether the handler gets as far as calling the analysis function.
CallsAnalyze(status) == status.is_available /\ status.analyze_function # None


MsgNoImagePath == <<"error: no image path given">>
MsgResultPrefix == <<"prediction result:\n">>
MsgUnknownTool == "unknown tool: "

ToolCall(id, name, image_path) ==
    [id |-> id, name |-> name, args |-> [image_path |-> image_path]]

\* A loop body that looks an unknown tool up and raises on not finding it.
RunToolCall_unknown_raises(tool_call, state_image_path, status, outcome, turn) ==
    IF tool_call.name = "predict_tongue_image_tool"
    THEN LET arg == tool_call.args.image_path
             image_path == IF Falsy(arg) THEN state_image_path ELSE arg
         IN  IF Falsy(image_path)
             THEN [message |-> ToolMessage(MsgNoImagePath, tool_call.id, turn),
                   invoked |-> FALSE, result |-> [skipped |-> TRUE]]
             ELSE LET result == predict_tongue_image_tool(status, outcome)
                  IN  [message |-> ToolMessage(MsgResultPrefix \o json_dumps(result),
                                               tool_call.id, turn),
                       invoked |-> TRUE, result |-> result]
    ELSE [message |-> ToolMessage(<<>>, tool_call.id, turn),
          invoked |-> TRUE, result |-> [exception |-> <<"KeyError">>]]

\* A loop body without the check of the image path after the fallback to the
\* state: the handler is invoked with whatever path there is.
RunToolCall_no_path_check(tool_call, state_image_path, status, outcome, turn) ==
    IF tool_call.name = "predict_tongue_image_tool"
    THEN LET result == predict_tongue_image_tool(status, outcome)
         IN  [message |-> ToolMessage(MsgResultPrefix \o json_dumps(result),
                                      tool_call.id, turn),
              invoked |-> TRUE, result |-> result]
    ELSE [message |-> ToolMessage(<<MsgUnknownTool, tool_call.name>>, tool_call.id, turn),
          invoked |-> FALSE, result |-> [skipped |-> TRUE]]

\* The body of tool_node's loop for one tool call: the tool-result message it
\* appends, whether it invoked the handler, and the handler's result.
RunToolCall(tool_call, state_image_path, status, outcome, turn) ==
    IF tool_call.name = "predict_tongue_image_tool"
    THEN LET arg == tool_call.args.image_path
             image_path == IF Falsy(arg) THEN state_image_path ELSE arg
         IN  IF Falsy(image_path)
             THEN [message |-> ToolMessage(MsgNoImagePath, tool_call.id, turn),
                   invoked |-> FALSE, result |-> [skipped |-> TRUE]]
             ELSE LET result == predict_tongue_image_tool(status, outcome)
                  IN  [message |->
                          IF "exception" \in DOMAIN result
                          THEN ToolMessage(<<>>, tool_call.id, turn)
                          ELSE ToolMessage(MsgResultPrefix \o json_dumps(result),
                                           tool_call.id, turn),
                       invoked |-> TRUE, result |-> result]
    ELSE [message |-> ToolMessage(<<MsgUnknownTool, tool_call.name>>, tool_call.id, turn),
          invoked |-> FALSE, result |-> [skipped |-> TRUE]]

\* A tool_node whose loop ends at the first call left without an image path
\* (break where the code has continue).
tool_node_break(messages, state_image_path, status, outcomes, turn) ==
    LET tool_calls == Last(messages).tool_calls
        runs == [i \in 1..Len(tool_calls) |->
                    RunToolCall(tool_calls[i], state_image_path, status, outcomes[i], turn)]
        stops == {i \in 1..Len(runs) : runs[i].message.content = MsgNoImagePath}
        n == IF stops = {} THEN Len(runs)
             ELSE CHOOSE i \in stops : \A j \in stops : i <= j
    IN  SubSeq(runs, 1, n)

\* tool_node: one run per tool call of the last message, in request order.
tool_node(messages, state_image_path, status, outcomes, turn) ==
    LET last_message == Last(messages)
        tool_calls == last_message.tool_calls
    IN  [i \in 1..Len(tool_calls) |->
            RunToolCall(tool_calls[i], state_image_path, status, outcomes[i], turn)]

\* The handler raising would leave tool_node by that exception.
ToolNodeRaises(runs) ==
    \E i \in 1..Len(runs) : runs[i].invoked /\ "exception" \in DOMAIN runs[i].result

should_continue(messages) ==
    LET last_message == Last(messages)
    IN  IF last_message.tool_calls # <<>> THEN "tools" ELSE "end"

\* ------------------------------------------------------------ generation
TOOL_AGENT_SYSTEM == <<"TOOL_AGENT_SYSTEM">>
system_content == <<"friendly assistant">>
MemoryHeader == <<"\n\nuser memory and preferences:\n">>

\* What agent_node passes to the backend.
agent_node_input(messages, memory_context, turn) ==
    IF ~has_system_message(messages)
    THEN <<SystemMessage(TOOL_AGENT_SYSTEM
                         \o (IF memory_context # <<>>
                             THEN MemoryHeader \o memory_context ELSE <<>>), turn)>>
         \o messages
    ELSE messages

\* What agent_node returns for the messages channel.
agent_node(messages, memory_context, response, turn) == <<response>>

\* What chat_node passes to the backend.
chat_node_input(messages, memory_context, turn) ==
    IF ~has_system_message(messages)
    THEN <<SystemMessage(system_content
                         \o (IF memory_context # <<>>
                             THEN MemoryHeader \o memory_context ELSE <<>>), turn)>>
         \o messages
    ELSE messages

\* What chat_node returns for the messages channel.
chat_node(messages, memory_context, response, turn) ==
    (IF ~has_system_message(messages)
     THEN <<Head(chat_node_input(messages, memory_context, turn))>>
     ELSE <<>>)
    \o <<response>>

\* ------------------------------------------------------- backend responses
PredictTool == "predict_tongue_image_tool"
OtherTool == "get_weekly_report_tool"
LlmPath == "/llm/tongue.jpg"
TmpPath == "/tmp/upload.jpg"

Answer == [content |-> <<"o", "k">>, tool_calls |-> <<>>]

\* Responses that request tools: every way tool_node can treat a call, alone and
\* in a message of two.
ToolShapes ==
    {[content |-> <<>>, tool_calls |-> c] :
        c \in {<<ToolCall("c1", PredictTool, LlmPath)>>,
               <<ToolCall("c1", PredictTool, "")>>,
               <<ToolCall("c1", OtherTool, "")>>,
               <<ToolCall("c1", PredictTool, ""), ToolCall("c2", OtherTool, "")>>,
               <<ToolCall("c1", OtherTool, ""), ToolCall("c2", PredictTool, LlmPath)>>}}
    \cup {[content |-> <<"t">>, tool_calls |-> <<ToolCall("c1", PredictTool, LlmPath)>>]}

AllShapes == {Answer} \cup ToolShapes
BasicShapes == {Answer, [content |-> <<"t">>, tool_calls |-> <<ToolCall("c1", OtherTool, "")>>]}

Prompt == <<"h", "i">>
DefaultPrompt == <<"please analyse this tongue image">>
PathNote == <<"\n\nimage uploaded, path: ">>
Contexts == {<<>>, <<"m">>}

\* ------------------------------------------------------------------ events
Event(event, name, content) == [event |-> event, name |-> name, content |-> content]

\* astream_events for one backend response: one chunk per character of the
\* content, and a chunk of empty content when the response carries tool calls.
RECURSIVE Chunks(_)
Chunks(content) ==
    IF content = <<>> THEN <<>>
    ELSE <<Event("on_chat_model_stream", "", <<Head(content)>>)>> \o Chunks(Tail(content))

ModelEvents(response) ==
    Chunks(response.content)
    \o (IF response.tool_calls # <<>>
        THEN <<Event("on_chat_model_stream", "", <<>>)>> ELSE <<>>)

RECURSIVE ToolEvents(_)
ToolEvents(runs) ==
    IF runs = <<>> THEN <<>>
    ELSE (IF Head(runs).invoked
          THEN <<Event("on_tool_start", PredictTool, <<>>),
                 Event("on_tool_end", PredictTool, <<>>)>>
          ELSE <<>>)
         \o ToolEvents(Tail(runs))

ChainEnd(name) == Event("on_chain_end", name, <<>>)
Raised == Event("exception", "", <<>>)

\* --------------------------------------------------------------- SSE items
Item(type, data) == [type |-> type, data |-> data]
DONE == Item("done", <<>>)

\* The body of the async-for of chat_stream for one event, and what follows the
\* loop when it ends: the items yielded and whether the generator is finished.
chat_stream_on_event(e) ==
    IF e.event = "exception"
    THEN [emit |-> <<Item("error", <<"LLM error">>)>>, stop |-> TRUE]
    ELSE IF e.event = "on_chat_model_stream"
    THEN [emit |-> IF e.content # <<>> THEN <<Item("content", e.content)>> ELSE <<>>,
          stop |-> FALSE]
    ELSE IF e.event = "on_chain_end" /\ e.name \in {"chat", "LangGraph"}
    THEN [emit |-> <<DONE>>, stop |-> TRUE]
    ELSE [emit |-> <<>>, stop |-> FALSE]

\* A handler that yields the done marker inside its loop and reads on.
agent_chat_stream_done_in_loop(e) ==
    IF e.event = "exception"
    THEN [emit |-> <<Item("error", <<"processing error">>)>>, stop |-> TRUE]
    ELSE IF e.event = "on_chat_model_stream"
    THEN [emit |-> IF e.content # <<>> THEN <<Item("content", e.content)>> ELSE <<>>,
          stop |-> FALSE]
    ELSE IF e.event = "on_tool_start"
    THEN [emit |-> <<Item("status", <<"calling tool: ", e.name>>)>>, stop |-> FALSE]
    ELSE IF e.event = "on_tool_end"
    THEN [emit |-> <<Item("status", <<"tool done, analysing">>)>>, stop |-> FALSE]
    ELSE IF e.event = "on_chain_end" /\ e.name = "agent"
    THEN [emit |-> <<DONE>>, stop |-> FALSE]
    ELSE IF e.event = "on_chain_end" /\ e.name = "LangGraph"
    THEN [emit |-> <<DONE>>, stop |-> TRUE]
    ELSE [emit |-> <<>>, stop |-> FALSE]

agent_chat_stream_on_event(e) ==
    IF e.event = "exception"
    THEN [emit |-> <<Item("error", <<"processing error">>)>>, stop |-> TRUE]
    ELSE IF e.event = "on_chat_model_stream"
    THEN [emit |-> IF e.content # <<>> THEN <<Item("content", e.content)>> ELSE <<>>,
          stop |-> FALSE]
    ELSE IF e.event = "on_tool_start"
    THEN [emit |-> <<Item("status", <<"calling tool: ", e.name>>)>>, stop |-> FALSE]
    ELSE IF e.event = "on_tool_end"
    THEN [emit |-> <<Item("status", <<"tool done, analysing">>)>>, stop |-> FALSE]
    ELSE IF e.event = "on_chain_end" /\ e.name \in {"agent", "LangGraph"}
    THEN [emit |-> <<DONE>>, stop |-> TRUE]
    ELSE [emit |-> <<>>, stop |-> FALSE]

\* StreamingResponseBuilder: from_langgraph_agent feeding build_sse_stream.
build_sse_stream_on_event(e) ==
    IF e.event = "exception"
    THEN [emit |-> <<Item("error", <<"str(e)">>)>>, stop |-> TRUE]
    ELSE IF e.event = "on_chat_model_stream"
    THEN [emit |-> IF e.content # <<>> THEN <<Item("content", e.content)>> ELSE <<>>,
          stop |-> FALSE]
    ELSE IF e.event = "on_tool_start"
    THEN [emit |-> <<Item("status", <<"calling tool: ", e.name>>)>>, stop |-> FALSE]
    ELSE IF e.event = "on_tool_end"
    THEN [emit |-> <<Item("status", <<"tool done">>)>>, stop |-> FALSE]
    ELSE IF e.event = "on_chain_end" /\ e.name = "LangGraph"
    THEN [emit |-> <<DONE>>, stop |-> TRUE]
    ELSE [emit |-> <<>>, stop |-> FALSE]

on_event(endpoint, e) ==
    IF endpoint = "chat_stream" THEN chat_stream_on_event(e)
    ELSE IF endpoint = "agent_chat_stream" THEN agent_chat_stream_on_event(e)
    ELSE build_sse_stream_on_event(e)

\* ------------------------------------------------------------------- state
VARIABLES
    store,      \* thread id -> the messages of the thread's latest checkpoint
    vision,     \* the VisionPredictStatus of the loader singleton
    request,    \* request -> endpoint, thread id, image path, memory context
    pc,         \* request -> where its graph run stands
    msgs,       \* request -> the messages channel of its graph run
    rounds,     \* request -> tool-requesting responses so far in its turn
    llmIn,      \* request -> the messages of its latest backend call
    toolRuns,   \* request -> the runs of its latest tool step
    events,     \* request -> events of its graph run not yet consumed
    out,        \* request -> what the handler has sent to the caller
    cpc,        \* request -> where its handler stands
    contextCalls, \* thread id -> calls of get_user_context made for the session
    files,      \* request -> the temporary file of its upload: none, saved, removed
    storeCalls, \* request -> the calls its handler made on the long-term store
    user_memory,             \* table user_memory: user_id -> row
    long_term_memories,      \* table long_term_memories: rows in id order
    session_memory,          \* table session_memory: session_id -> row
    tongue_analysis_records, \* table tongue_analysis_records: rows in id order
    clock,                   \* the latest value datetime.now() has given
    reply,                   \* what the latest call on the long-term store returned
    txn                      \* transaction -> its operation, statement and pending writes

\* The long-term store (PostgreSQL behind LongTermMemory) and its latest reply.
dbVars == <<user_memory, long_term_memories, session_memory, tongue_analysis_records,
            clock, reply, txn>>

\* What a handler holds besides its run: its upload and its store calls.
handlerVars == <<files, storeCalls>>

vars == <<store, vision, request, pc, msgs, rounds, llmIn, toolRuns, events, out, cpc,
          contextCalls, handlerVars, dbVars>>

NoReply == [op |-> "none"]

\* Write operations in flight, each on a connection and in a transaction of its own.
Txns == {1, 2, 3}
NoTxn == [op |-> "none", user_id |-> "", pc |-> "idle", conn |-> "none", error |-> "none",
          user |-> "none", child |-> FALSE]

\* _init_database on an empty database: the tables exist and hold no row.
InitStore ==
    /\ user_memory = <<>>
    /\ long_term_memories = <<>>
    /\ session_memory = <<>>
    /\ tongue_analysis_records = <<>>
    /\ clock = 0
    /\ reply = NoReply
    /\ txn = [x \in Txns |-> NoTxn]

NoRequest == [endpoint |-> "none", thread_id |-> "", image_path |-> None,
              memory_context |-> <<>>]

Streaming == {"chat_stream", "agent_chat_stream", "build_sse_stream"}
Running == {"input", "chat", "agent", "tools", "analyze"}

InitRequests(statuses) ==
    /\ store = [t \in Threads \cup {PrivateThread(r) : r \in Reqs} |-> <<>>]
    /\ vision \in statuses
    /\ request = [r \in Reqs |-> NoRequest]
    /\ pc = [r \in Reqs |-> "none"]
    /\ msgs = [r \in Reqs |-> <<>>]
    /\ rounds = [r \in Reqs |-> 0]
    /\ llmIn = [r \in Reqs |-> <<>>]
    /\ toolRuns = [r \in Reqs |-> <<>>]
    /\ events = [r \in Reqs |-> <<>>]
    /\ out = [r \in Reqs |-> <<>>]
    /\ cpc = [r \in Reqs |-> "idle"]
    /\ contextCalls = [t \in Threads |-> 0]
    /\ files = [r \in Reqs |-> "none"]
    /\ storeCalls = [r \in Reqs |-> <<>>]

InitWith(statuses) == InitRequests(statuses) /\ InitStore

\* The graph run of request r puts events on its stream while the handler reads it.
Emit(r, evs) ==
    IF cpc[r] = "streaming" THEN [events EXCEPT ![r] = @ \o evs] ELSE events

\* An agent whose checkpointer is not the one the other modes wrote to: the run
\* finds no checkpoint of the thread and applies the input to an empty log.
StartRun_own_checkpointer(r, endpoint, t, input, image_path, memory_context) ==
    /\ request' = [request EXCEPT ![r] =
                      [endpoint |-> endpoint, thread_id |-> t,
                       image_path |-> image_path, memory_context |-> memory_context]]
    /\ msgs' = [msgs EXCEPT ![r] = add_messages(<<>>, input)]
    /\ pc' = [pc EXCEPT ![r] = "input"]

\* ainvoke / astream_events: the run loads the thread's checkpoint and applies the
\* input to it.
StartRun(r, endpoint, t, input, image_path, memory_context) ==
    /\ request' = [request EXCEPT ![r] =
                      [endpoint |-> endpoint, thread_id |-> t,
                       image_path |-> image_path, memory_context |-> memory_context]]
    /\ msgs' = [msgs EXCEPT ![r] = add_messages(store[t], input)]
    /\ pc' = [pc EXCEPT ![r] = "input"]

\* A call a handler made on the long-term store, whether it returned, and for
\* save_tongue_analysis the analysis_response it was given.
StoreCall(op, ok, analysis_response) ==
    [op |-> op, ok |-> ok, analysis_response |-> analysis_response]

\* Requests are numbered in the order they arrive.
Arrives(r) ==
    /\ request[r].endpoint = "none"
    /\ \A q \in Reqs : q < r => request[q].endpoint # "none"

\* chat and chat_stream up to the start of the run.
Chat(r, t, ctx, endpoint) ==
    /\ Arrives(r)
    /\ LET is_new_session == store[t] = <<>>
           memory_context == IF is_new_session THEN ctx ELSE <<>>
       IN  /\ StartRun(r, endpoint, t, <<HumanMessage(Prompt, r)>>, None, memory_context)
           /\ contextCalls' = [contextCalls EXCEPT ![t] = IF is_new_session THEN @ + 1 ELSE @]
           /\ storeCalls' = [storeCalls EXCEPT ![r] =
                                IF is_new_session THEN <<StoreCall("get_user_context", TRUE, <<>>)>>
                                ELSE <<>>]
    /\ cpc' = [cpc EXCEPT ![r] = IF endpoint = "chat" THEN "awaiting" ELSE "streaming"]
    /\ UNCHANGED <<dbVars, files, store, vision, rounds, llmIn, toolRuns, events, out>>

\* agent_chat_stream up to the start of the run, or to its early return.
AgentChatStream(r, t, file, prompt, ctx) ==
    /\ Arrives(r)
    /\ contextCalls' = [contextCalls EXCEPT ![t] = @ + 1]
    /\ storeCalls' = [storeCalls EXCEPT ![r] = <<StoreCall("get_user_context", TRUE, <<>>)>>]
    /\ files' = [files EXCEPT ![r] = IF file THEN "saved" ELSE "none"]
    /\ LET image_path == IF file THEN TmpPath ELSE None
       IN  IF ~Falsy(image_path)
           THEN /\ StartRun(r, "agent_chat_stream", t,
                            <<HumanMessage((IF prompt # <<>> THEN prompt ELSE DefaultPrompt)
                                           \o PathNote \o <<image_path>>, r)>>,
                            image_path, ctx)
                /\ cpc' = [cpc EXCEPT ![r] = "streaming"]
                /\ out' = out
           ELSE IF prompt # <<>>
           THEN /\ StartRun(r, "agent_chat_stream", t, <<HumanMessage(prompt, r)>>,
                            image_path, ctx)
                /\ cpc' = [cpc EXCEPT ![r] = "streaming"]
                /\ out' = out
           ELSE /\ request' = [request EXCEPT ![r] =
                                  [endpoint |-> "agent_chat_stream", thread_id |-> t,
                                   image_path |-> image_path, memory_context |-> ctx]]
                /\ out' = [out EXCEPT ![r] = <<Item("error", <<"give an image or a prompt">>)>>]
                /\ cpc' = [cpc EXCEPT ![r] = "done"]
                /\ UNCHANGED <<msgs, pc>>
    /\ UNCHANGED <<dbVars, store, vision, rounds, llmIn, toolRuns, events>>

\* The tool agent behind StreamingResponseBuilder.
BuildSseStream(r, t, ctx) ==
    /\ Arrives(r)
    /\ StartRun(r, "build_sse_stream", t, <<HumanMessage(Prompt, r)>>, None, ctx)
    /\ cpc' = [cpc EXCEPT ![r] = "streaming"]
    /\ UNCHANGED <<dbVars, handlerVars, contextCalls, store, vision, rounds, llmIn, toolRuns, events, out>>

\* The entry point of the graph an endpoint runs: _agents["chat"], _agents["tongue"]
\* or _agents["tool"].
TongueEndpoints == {"analyze", "analyze_stream", "predict_and_analyze_stream"}
EntryPoint(endpoint) ==
    IF endpoint \in {"chat", "chat_stream"} THEN "chat"
    ELSE IF endpoint \in TongueEndpoints THEN "analyze"
    ELSE "agent"

\* A checkpointer that keeps one log whatever the thread id: the checkpoint of
\* the input is saved for every thread.
PutInput_one_log(r) ==
    /\ pc[r] = "input"
    /\ store' = [t \in DOMAIN store |-> msgs[r]]
    /\ pc' = [pc EXCEPT ![r] = EntryPoint(request[r].endpoint)]
    /\ UNCHANGED <<dbVars, handlerVars, contextCalls, vision, request, msgs, rounds, llmIn, toolRuns, events, out, cpc>>

\* The checkpoint of the input is saved and the entry node is scheduled.
PutInput(r) ==
    /\ pc[r] = "input"
    /\ store' = [store EXCEPT ![request[r].thread_id] = msgs[r]]
    /\ pc' = [pc EXCEPT ![r] = EntryPoint(request[r].endpoint)]
    /\ UNCHANGED <<dbVars, handlerVars, contextCalls, vision, request, msgs, rounds, llmIn, toolRuns, events, out, cpc>>

\* One step of the chat graph: chat_node, its update merged and checkpointed.
ChatNode(r, shapes) ==
    /\ pc[r] = "chat"
    /\ \E shape \in shapes :
        /\ shape.tool_calls = <<>>
        /\ LET response == AIMessage(shape.content, <<>>, r)
               merged == add_messages(msgs[r],
                            chat_node(msgs[r], request[r].memory_context, response, r))
           IN  /\ llmIn' = [llmIn EXCEPT ![r] =
                               chat_node_input(msgs[r], request[r].memory_context, r)]
               /\ msgs' = [msgs EXCEPT ![r] = merged]
               /\ store' = [store EXCEPT ![request[r].thread_id] = merged]
               /\ events' = Emit(r, ModelEvents(response)
                                    \o <<ChainEnd("chat"), ChainEnd("LangGraph")>>)
    /\ pc' = [pc EXCEPT ![r] = "END"]
    /\ UNCHANGED <<dbVars, handlerVars, contextCalls, vision, request, rounds, toolRuns, out, cpc>>

\* One step of the tool graph: agent_node, its update merged and checkpointed, and
\* the conditional edge should_continue.
AgentNode(r, shapes, maxRounds) ==
    /\ pc[r] = "agent"
    /\ \E shape \in shapes :
        /\ shape.tool_calls # <<>> => rounds[r] < maxRounds
        /\ LET response == AIMessage(shape.content, shape.tool_calls, r)
               merged == add_messages(msgs[r],
                            agent_node(msgs[r], request[r].memory_context, response, r))
               next == should_continue(merged)
           IN  /\ llmIn' = [llmIn EXCEPT ![r] =
                               agent_node_input(msgs[r], request[r].memory_context, r)]
               /\ msgs' = [msgs EXCEPT ![r] = merged]
               /\ store' = [store EXCEPT ![request[r].thread_id] = merged]
               /\ pc' = [pc EXCEPT ![r] = IF next = "tools" THEN "tools" ELSE "END"]
               /\ rounds' = [rounds EXCEPT ![r] = IF next = "tools" THEN @ + 1 ELSE @]
               /\ events' = Emit(r, ModelEvents(response) \o <<ChainEnd("agent")>>
                                    \o (IF next = "tools" THEN <<>>
                                        ELSE <<ChainEnd("LangGraph")>>))
    /\ UNCHANGED <<dbVars, handlerVars, contextCalls, vision, request, toolRuns, out, cpc>>

\* The backend call of a node raises: the run ends by the exception.
GenerateFails(r) ==
    /\ pc[r] \in {"chat", "agent", "analyze"}
    /\ pc' = [pc EXCEPT ![r] = "error"]
    /\ events' = Emit(r, <<Raised>>)
    /\ UNCHANGED <<dbVars, handlerVars, contextCalls, store, vision, request, msgs, rounds, llmIn, toolRuns, out, cpc>>

\* The calls of a message whose handling reaches the analysis function.
Analyzes(tool_call, state_image_path, status) ==
    /\ tool_call.name = PredictTool
    /\ ~(Falsy(tool_call.args.image_path) /\ Falsy(state_image_path))
    /\ CallsAnalyze(status)

\* One step of the tool graph: tool_node, its update merged and checkpointed, and
\* the edge back to agent.
ToolNode(r) ==
    /\ pc[r] = "tools"
    /\ LET tool_calls == Last(msgs[r]).tool_calls
       IN  \E outcomes \in [1..Len(tool_calls) -> Outcomes] :
            /\ \A i \in 1..Len(tool_calls) :
                 ~Analyzes(tool_calls[i], request[r].image_path, vision)
                    => outcomes[i].kind = "ok"
            /\ LET runs == tool_node(msgs[r], request[r].image_path, vision, outcomes, r)
                   merged == add_messages(msgs[r], [i \in 1..Len(runs) |-> runs[i].message])
               IN  IF ToolNodeRaises(runs)
                   THEN /\ pc' = [pc EXCEPT ![r] = "error"]
                        /\ events' = Emit(r, <<Raised>>)
                        /\ UNCHANGED <<store, msgs, toolRuns>>
                   ELSE /\ msgs' = [msgs EXCEPT ![r] = merged]
                        /\ store' = [store EXCEPT ![request[r].thread_id] = merged]
                        /\ toolRuns' = [toolRuns EXCEPT ![r] =
                              [i \in 1..Len(runs) |->
                                 [call |-> tool_calls[i], outcome |-> outcomes[i],
                                  message |-> runs[i].message,
                                  invoked |-> runs[i].invoked, result |-> runs[i].result]]]
                        /\ pc' = [pc EXCEPT ![r] = "agent"]
                        /\ events' = Emit(r, ToolEvents(runs) \o <<ChainEnd("tools")>>)
    /\ UNCHANGED <<dbVars, handlerVars, contextCalls, vision, request, rounds, llmIn, out, cpc>>

\* The finally clause of a streaming handler: the file whose path it holds is removed.
Unlinked(r) == [files EXCEPT ![r] = IF @ = "saved" THEN "removed" ELSE @]

\* The handler's generator takes the next event of the run.
Consume(r) ==
    /\ cpc[r] = "streaming"
    /\ request[r].endpoint \in Streaming
    /\ events[r] # <<>>
    /\ LET step == on_event(request[r].endpoint, Head(events[r]))
       IN  /\ out' = [out EXCEPT ![r] = @ \o step.emit]
           /\ cpc' = [cpc EXCEPT ![r] = IF step.stop THEN "done" ELSE "streaming"]
           /\ events' = [events EXCEPT ![r] = IF step.stop THEN <<>> ELSE Tail(@)]
           /\ files' = IF step.stop THEN Unlinked(r) ELSE files
    /\ UNCHANGED <<dbVars, storeCalls, contextCalls, store, vision, request, pc, msgs, rounds, llmIn, toolRuns>>

\* chat: ainvoke has returned or raised, and the handler answers.
ChatReturn(r) ==
    /\ cpc[r] = "awaiting"
    /\ request[r].endpoint = "chat"
    /\ pc[r] \in {"END", "error"}
    /\ out' = [out EXCEPT ![r] =
                  IF pc[r] = "END" THEN <<Item("response", Last(msgs[r]).content)>>
                  ELSE <<Item("http_500", <<"LLM error">>)>>]
    /\ cpc' = [cpc EXCEPT ![r] = "done"]
    /\ UNCHANGED <<dbVars, handlerVars, contextCalls, store, vision, request, pc, msgs, rounds, llmIn, toolRuns, events>>

\* The generator has left the event stream while the run was still going: the
\* stream is closed and the run's task cancelled at its next suspension.
Cancel(r) ==
    /\ cpc[r] = "done"
    /\ pc[r] \in Running
    /\ pc' = [pc EXCEPT ![r] = "cancelled"]
    /\ UNCHANGED <<dbVars, handlerVars, contextCalls, store, vision, request, msgs, rounds, llmIn, toolRuns, events, out, cpc>>

\* -------------------------------------------------------- long-term store
Users == {"u1", "u2"}

\* json.dumps and json.loads of a dictionary, a dictionary being the sequence
\* of its keys.
DictJson(d) == <<"{">> \o d \o <<"}">>
DictLoad(text) == SubSeq(text, 2, Len(text) - 1)
\* json.dumps(..., indent=2)
DictJsonIndent(d) == <<"{", "\n">> \o d \o <<"\n", "}">>

\* A column that is NULL reads as the empty text.
NULL == <<>>
NoPreferences == <<None>>

\* The values datetime.now() may give next: time has moved on or has not.
Now(maxClock) == {clock} \cup (IF clock < maxClock THEN {clock + 1} ELSE {})

\* A child write that does not see to the user row.
EnsureUser_skipped(table, user_id) == table

\* A user upsert that writes its (empty) row over the one there is.
EnsureUser_replace(table, user_id) ==
    [u \in DOMAIN table \cup {user_id} |->
        IF u = user_id THEN [preferences |-> <<>>] ELSE table[u]]

\* INSERT INTO user_memory (user_id, updated_at) ... ON CONFLICT (user_id) DO NOTHING
EnsureUser(table, user_id) ==
    IF user_id \in DOMAIN table THEN table
    ELSE [u \in DOMAIN table \cup {user_id} |->
             IF u = user_id THEN [preferences |-> NULL] ELSE table[u]]

\* INSERT ... ON CONFLICT (key) DO UPDATE SET the columns of set
Upsert(table, key, row, set) ==
    [k \in DOMAIN table \cup {key} |->
        IF k # key THEN table[k]
        ELSE IF key \in DOMAIN table
        THEN [c \in DOMAIN table[key] |-> IF c \in set THEN row[c] ELSE table[key][c]]
        ELSE row]

\* LIKE: % stands for any text, _ for any one character.
RECURSIVE Like(_, _)
Like(text, pattern) ==
    IF pattern = <<>> THEN text = <<>>
    ELSE IF Head(pattern) = "%"
    THEN Like(text, Tail(pattern)) \/ (text # <<>> /\ Like(Tail(text), pattern))
    ELSE IF text = <<>> THEN FALSE
    ELSE (Head(pattern) = "_" \/ Head(pattern) = Head(text))
         /\ Like(Tail(text), Tail(pattern))

\* The WHERE clause of search_memories: the ids of the rows it selects.
Matches(rows, user_id, query, memory_type, min_importance) ==
    {i \in 1..Len(rows) :
        /\ rows[i].user_id = user_id
        /\ rows[i].importance_score >= min_importance
        /\ ~Falsy(memory_type) => rows[i].memory_type = memory_type
        /\ query # <<>> =>
              LET query_pattern == <<"%">> \o query \o <<"%">>
              IN  Like(rows[i].content, query_pattern)
                  \/ Like(rows[i].metadata, query_pattern)}

\* ORDER BY importance_score DESC, updated_at DESC: a sorts before b.
MemoryBefore(a, b) ==
    \/ a.importance_score > b.importance_score
    \/ a.importance_score = b.importance_score /\ a.updated_at > b.updated_at

\* ORDER BY ... LIMIT over the selected rows: every sequence the database may
\* answer with, rows that tie coming in any order.
RECURSIVE OrderedLimit(_, _, _)
OrderedLimit(rows, selected, limit) ==
    IF limit = 0 \/ selected = {} THEN {<<>>}
    ELSE UNION {{<<i>> \o rest : rest \in OrderedLimit(rows, selected \ {i}, limit - 1)} :
                  i \in {j \in selected : \A k \in selected : ~MemoryBefore(rows[k], rows[j])}}

\* The dictionary search_memories makes of a row.
MemoryDict(row) ==
    [id |-> row.id, memory_type |-> row.memory_type, content |-> row.content,
     metadata |-> DictLoad(row.metadata), importance_score |-> row.importance_score,
     updated_at |-> row.updated_at]

\* search_memories without its LIMIT.
search_memories_no_limit(rows, user_id, query, memory_type, limit, min_importance) ==
    {[n \in 1..Len(ids) |-> MemoryDict(rows[ids[n]])] :
        ids \in OrderedLimit(rows, Matches(rows, user_id, query, memory_type,
                                           min_importance), Len(rows))}

\* search_memories: the lists it may return.
search_memories(rows, user_id, query, memory_type, limit, min_importance) ==
    {[n \in 1..Len(ids) |-> MemoryDict(rows[ids[n]])] :
        ids \in OrderedLimit(rows, Matches(rows, user_id, query, memory_type,
                                           min_importance), limit)}

\* get_user_preference
get_user_preference(table, user_id) ==
    IF user_id \in DOMAIN table /\ table[user_id].preferences # NULL
    THEN DictLoad(table[user_id].preferences)
    ELSE NoPreferences

\* What get_user_memories_summary asks for: limit and min_importance of its
\* search, and the LIMIT of its session query.
ContextMemoryLimit == 5
ContextMinImportance == 5
ContextSessionLimit == 3

\* ORDER BY updated_at DESC LIMIT over the sessions of a user: every sequence of
\* session ids the database may answer with.
RECURSIVE RecentSessions(_, _, _)
RecentSessions(table, selected, limit) ==
    IF limit = 0 \/ selected = {} THEN {<<>>}
    ELSE UNION {{<<i>> \o rest : rest \in RecentSessions(table, selected \ {i}, limit - 1)} :
                  i \in {j \in selected :
                            \A k \in selected : table[k].updated_at <= table[j].updated_at}}

\* get_user_memories_summary: the summaries it may return.
get_user_memories_summary(user_id) ==
    {[preferences |-> get_user_preference(user_memory, user_id),
      important_memories |-> memories,
      recent_sessions |->
          [n \in 1..Len(ids) |->
              [session_id |-> ids[n], summary |-> session_memory[ids[n]].summary,
               updated_at |-> session_memory[ids[n]].updated_at]]] :
        memories \in search_memories(long_term_memories, user_id, <<>>, None,
                                     ContextMemoryLimit, ContextMinImportance),
        ids \in RecentSessions(session_memory,
                               {i \in DOMAIN session_memory :
                                   session_memory[i].user_id = user_id},
                               ContextSessionLimit)}

\* sep.join(texts)
RECURSIVE Join(_, _)
Join(texts, sep) ==
    IF texts = <<>> THEN <<>>
    ELSE IF Len(texts) = 1 THEN Head(texts)
    ELSE Head(texts) \o sep \o Join(Tail(texts), sep)

\* The headings of the three sections, each a fixed text and a line break.
PreferencesHeader == <<"user preferences:", "\n">>
MemoriesHeader == <<"important memories:", "\n">>
SessionsHeader == <<"recent session summaries:", "\n">>

\* "\n".join of one line for each memory, and of one for each session.
memories_text(important_memories) ==
    Join([n \in 1..Len(important_memories) |->
             <<"- [", important_memories[n].memory_type, "] ">>
             \o important_memories[n].content],
         <<"\n">>)
sessions_text(recent_sessions) ==
    Join([n \in 1..Len(recent_sessions) |-> <<"- ">> \o recent_sessions[n].summary],
         <<"\n">>)

\* MemoryManager.get_user_context, from the summary on.
get_user_context(summary) ==
    LET prefs_part ==
            IF summary.preferences \notin {<<>>, NoPreferences}
            THEN <<PreferencesHeader \o DictJsonIndent(summary.preferences)>> ELSE <<>>
        memories_part ==
            IF summary.important_memories # <<>>
            THEN <<MemoriesHeader \o memories_text(summary.important_memories)>>
            ELSE <<>>
        sessions_part ==
            IF summary.recent_sessions # <<>>
            THEN <<SessionsHeader \o sessions_text(summary.recent_sessions)>>
            ELSE <<>>
        context_parts == prefs_part \o memories_part \o sessions_part
    IN  Join(context_parts, <<"\n\n">>)

\* save_user_preference
SaveUserPreference(user_id, preferences) ==
    /\ user_memory' = Upsert(user_memory, user_id,
                             [preferences |-> DictJson(preferences)], {"preferences"})
    /\ reply' = NoReply
    /\ UNCHANGED <<long_term_memories, session_memory, tongue_analysis_records, clock>>

\* save_session_summary, in its one transaction.
SaveSessionSummary(session_id, user_id, summary, maxClock) ==
    \E now \in Now(maxClock) :
        /\ user_memory' = EnsureUser(user_memory, user_id)
        /\ session_memory' =
              Upsert(session_memory, session_id,
                     [user_id |-> user_id, summary |-> summary, updated_at |-> now],
                     {"summary", "updated_at"})
        /\ clock' = now
        /\ reply' = NoReply
        /\ UNCHANGED <<long_term_memories, tongue_analysis_records>>

\* A save_memory that writes over the latest memory instead of adding one.
SaveMemory_overwrite(user_id, memory_type, content, metadata, importance_score, maxClock, maxRows) ==
    /\ long_term_memories' =
          IF long_term_memories = <<>>
          THEN <<[id |-> 1, user_id |-> user_id, memory_type |-> memory_type,
                  content |-> content, metadata |-> <<"{">> \o metadata \o <<"}">>,
                  importance_score |-> importance_score, updated_at |-> clock]>>
          ELSE <<>>
    /\ user_memory' = [u \in DOMAIN user_memory \cup {user_id} |->
                          IF u \in DOMAIN user_memory THEN user_memory[u]
                          ELSE [preferences |-> <<>>]]
    /\ reply' = [op |-> "none"]
    /\ UNCHANGED <<session_memory, tongue_analysis_records, clock>>

\* save_memory, in its one transaction.
SaveMemory(user_id, memory_type, content, metadata, importance_score, maxClock, maxRows) ==
    /\ Len(long_term_memories) < maxRows
    /\ \E now \in Now(maxClock) :
        /\ user_memory' = EnsureUser(user_memory, user_id)
        /\ long_term_memories' =
              Append(long_term_memories,
                     [id |-> Len(long_term_memories) + 1, user_id |-> user_id,
                      memory_type |-> memory_type, content |-> content,
                      metadata |-> DictJson(metadata),
                      importance_score |-> importance_score, updated_at |-> now])
        /\ clock' = now
    /\ reply' = NoReply
    /\ UNCHANGED <<session_memory, tongue_analysis_records>>

\* save_tongue_analysis, in its one transaction.
SaveTongueAnalysis(user_id, session_id, maxRows) ==
    /\ Len(tongue_analysis_records) < maxRows
    /\ user_memory' = EnsureUser(user_memory, user_id)
    /\ tongue_analysis_records' =
          Append(tongue_analysis_records,
                 [id |-> Len(tongue_analysis_records) + 1, user_id |-> user_id,
                  session_id |-> session_id])
    /\ reply' = NoReply
    /\ UNCHANGED <<long_term_memories, session_memory, clock>>

\* The search route: search_memories answers.
SearchMemories(user_id, query, memory_type, limit, min_importance) ==
    /\ \E memories \in search_memories(long_term_memories, user_id, query, memory_type,
                                       limit, min_importance) :
          reply' = [op |-> "search", user_id |-> user_id, query |-> query,
                    memory_type |-> memory_type, limit |-> limit,
                    min_importance |-> min_importance, memories |-> memories]
    /\ UNCHANGED <<user_memory, long_term_memories, session_memory,
                   tongue_analysis_records, clock>>

\* get_user_context answers.
GetUserContext(user_id) ==
    /\ \E summary \in get_user_memories_summary(user_id) :
          reply' = [op |-> "context", user_id |-> user_id, summary |-> summary,
                    context |-> get_user_context(summary)]
    /\ UNCHANGED <<user_memory, long_term_memories, session_memory,
                   tongue_analysis_records, clock>>

\* The turn machine stands still while the long-term store is at work.
TurnVars == <<store, vision, request, pc, msgs, rounds, llmIn, toolRuns, events, out, cpc,
              contextCalls, handlerVars>>

\* --------------------------------------------------------- tongue analysis
TONGUE_ANALYSIS_SYSTEM == <<"you are a tongue diagnosis expert">>
\* PromptTemplates.build_analysis_prompt of the prediction results.
AnalysisPrompt == <<"analyse:">> \o json_dumps(AnalysisResults)

\* One step of the tongue graph: analyze_tongue_node, its update merged and
\* checkpointed, and the edge to END.
AnalyzeNode(r, shapes) ==
    /\ pc[r] = "analyze"
    /\ \E shape \in shapes :
        /\ shape.tool_calls = <<>>
        /\ LET response == AIMessage(shape.content, <<>>, r)
               merged == add_messages(msgs[r], <<response>>)
           IN  /\ llmIn' = [llmIn EXCEPT ![r] =
                               <<SystemMessage(TONGUE_ANALYSIS_SYSTEM, r),
                                 HumanMessage(AnalysisPrompt, r)>>]
               /\ msgs' = [msgs EXCEPT ![r] = merged]
               /\ store' = [store EXCEPT ![request[r].thread_id] = merged]
               /\ events' = Emit(r, ModelEvents(response)
                                    \o <<ChainEnd("analyze"), ChainEnd("LangGraph")>>)
    /\ pc' = [pc EXCEPT ![r] = "END"]
    /\ UNCHANGED <<dbVars, handlerVars, contextCalls, vision, request, rounds, toolRuns, out, cpc>>

\* session_id or a thread id made up for the request.
SessionThread(r, session_id) == IF Falsy(session_id) THEN PrivateThread(r) ELSE session_id

\* analyze up to the start of the run.
AnalyzeTongue(r, session_id) ==
    /\ Arrives(r)
    /\ StartRun(r, "analyze", SessionThread(r, session_id), <<>>, None, <<>>)
    /\ cpc' = [cpc EXCEPT ![r] = "awaiting"]
    /\ UNCHANGED <<dbVars, handlerVars, contextCalls, store, vision, rounds, llmIn, toolRuns, events, out>>

\* analyze_tongue_stream up to the start of the run: the thread id is made up
\* whatever session id the request carries.
AnalyzeTongueStream(r) ==
    /\ Arrives(r)
    /\ StartRun(r, "analyze_stream", PrivateThread(r), <<>>, None, <<>>)
    /\ cpc' = [cpc EXCEPT ![r] = "streaming"]
    /\ UNCHANGED <<dbVars, handlerVars, contextCalls, store, vision, rounds, llmIn, toolRuns, events, out>>

\* predict_and_analyze_tongue_stream up to the start of the run, or to the
\* return or the exception that ends it before.
PredictAndAnalyzeStream(r, session_id, copied, outcome) ==
    /\ Arrives(r)
    /\ LET t == SessionThread(r, session_id)
           analysing == Item("status", <<"analysing the image">>)
           Returns(error, file) ==
               /\ request' = [request EXCEPT ![r] =
                                 [endpoint |-> "predict_and_analyze_stream", thread_id |-> t,
                                  image_path |-> None, memory_context |-> <<>>]]
               /\ out' = [out EXCEPT ![r] = <<analysing, Item("error", error)>>]
               /\ files' = [files EXCEPT ![r] = file]
               /\ cpc' = [cpc EXCEPT ![r] = "done"]
               /\ UNCHANGED <<msgs, pc>>
       IN  IF ~vision.is_available
           THEN Returns(MsgUnavailable \o vision.error_message, "none")
           ELSE IF ~copied
           THEN Returns(<<"processing error">>, "saved")
           ELSE IF vision.analyze_function = None
           THEN Returns(MsgNoFunction, "removed")
           ELSE IF outcome.kind = "none"
           THEN Returns(MsgPredictFailed, "removed")
           ELSE IF outcome.kind = "raise"
           THEN Returns(<<"processing error">>, "removed")
           ELSE /\ StartRun(r, "predict_and_analyze_stream", t, <<>>, None, <<>>)
                /\ out' = [out EXCEPT ![r] =
                              <<analysing, Item("status", <<"prediction done, analysing">>)>>]
                /\ files' = [files EXCEPT ![r] = "saved"]
                /\ cpc' = [cpc EXCEPT ![r] = "streaming"]
    /\ UNCHANGED <<dbVars, storeCalls, contextCalls, store, vision, rounds, llmIn, toolRuns, events>>

\* The loop bodies of analyze_tongue_stream and predict_and_analyze_tongue_stream:
\* what an event makes the generator send, whether it leaves the loop, and
\* whether it saves the analysis first.
tongue_on_event(endpoint, e) ==
    IF e.event = "exception"
    THEN [emit |-> <<Item("error", <<"processing error">>)>>, stop |-> TRUE, save |-> FALSE]
    ELSE IF e.event = "on_chat_model_stream"
    THEN [emit |-> IF e.content # <<>> THEN <<Item("content", e.content)>> ELSE <<>>,
          stop |-> FALSE, save |-> FALSE]
    ELSE IF e.event = "on_chain_end" /\ e.name = "analyze"
    THEN [emit |-> <<DONE>>, stop |-> TRUE,
          save |-> endpoint = "predict_and_analyze_stream"]
    ELSE [emit |-> <<>>, stop |-> FALSE, save |-> FALSE]

\* full_response: the fragments sent so far, joined.
RECURSIVE full_response(_)
full_response(items) ==
    IF items = <<>> THEN <<>>
    ELSE (IF Head(items).type = "content" THEN Head(items).data ELSE <<>>)
         \o full_response(Tail(items))

\* user_id or "default", the caller of the model being the first user.
AnalysisUser == "u1"

\* The try/except around save_tongue_analysis: the record is written, or the
\* transaction is rolled back and the exception logged.
TrySaveTongueAnalysis(r, saved, analysis_response) ==
    /\ storeCalls' = [storeCalls EXCEPT ![r] =
                         Append(@, StoreCall("save_tongue_analysis", saved, analysis_response))]
    /\ IF saved
       THEN /\ SaveTongueAnalysis(AnalysisUser, request[r].thread_id,
                                  Len(tongue_analysis_records) + 1)
            /\ UNCHANGED txn
       ELSE UNCHANGED dbVars

\* The generator of a tongue handler takes the next event of the run.
ConsumeAnalysis(r, saved) ==
    /\ cpc[r] = "streaming"
    /\ request[r].endpoint \in TongueEndpoints
    /\ events[r] # <<>>
    /\ LET step == tongue_on_event(request[r].endpoint, Head(events[r]))
       IN  /\ out' = [out EXCEPT ![r] = @ \o step.emit]
           /\ cpc' = [cpc EXCEPT ![r] = IF step.stop THEN "done" ELSE "streaming"]
           /\ events' = [events EXCEPT ![r] = IF step.stop THEN <<>> ELSE Tail(@)]
           /\ files' = IF step.stop THEN Unlinked(r) ELSE files
           /\ IF step.save
              THEN TrySaveTongueAnalysis(r, saved, full_response(out[r]))
              ELSE saved /\ UNCHANGED <<dbVars, storeCalls>>
    /\ UNCHANGED <<contextCalls, store, vision, request, pc, msgs, rounds, llmIn, toolRuns>>

\* analyze: ainvoke has returned or raised; the handler saves the analysis and
\* answers.
AnalyzeReturn(r, saved) ==
    /\ cpc[r] = "awaiting"
    /\ request[r].endpoint = "analyze"
    /\ pc[r] \in {"END", "error"}
    /\ IF pc[r] = "END"
       THEN LET response_text == Last(msgs[r]).content
            IN  /\ TrySaveTongueAnalysis(r, saved, response_text)
                /\ out' = [out EXCEPT ![r] = <<Item("response", response_text)>>]
       ELSE /\ saved
            /\ out' = [out EXCEPT ![r] = <<Item("http_500", <<"analysis error">>)>>]
            /\ UNCHANGED <<dbVars, storeCalls>>
    /\ cpc' = [cpc EXCEPT ![r] = "done"]
    /\ UNCHANGED <<files, contextCalls, store, vision, request, pc, msgs, rounds, llmIn, toolRuns, events>>

\* ------------------------------------------------------- failing handlers
\* get_user_context raises in chat, chat_stream or agent_chat_stream: the
\* exception reaches the except clause of the handler.
ContextFails(r, t, endpoint) ==
    /\ Arrives(r)
    /\ endpoint \in {"chat", "chat_stream"} => store[t] = <<>>
    /\ request' = [request EXCEPT ![r] =
                      [endpoint |-> endpoint, thread_id |-> t, image_path |-> None,
                       memory_context |-> <<>>]]
    /\ contextCalls' = [contextCalls EXCEPT ![t] = @ + 1]
    /\ storeCalls' = [storeCalls EXCEPT ![r] = <<StoreCall("get_user_context", FALSE, <<>>)>>]
    /\ out' = [out EXCEPT ![r] =
                  IF endpoint = "chat" THEN <<Item("http_500", <<"LLM error">>)>>
                  ELSE IF endpoint = "chat_stream" THEN <<Item("error", <<"LLM error">>)>>
                  ELSE <<Item("error", <<"processing error">>)>>]
    /\ cpc' = [cpc EXCEPT ![r] = "done"]
    /\ UNCHANGED <<dbVars, files, store, vision, pc, msgs, rounds, llmIn, toolRuns, events>>

\* agent_chat_stream: copyfileobj raises inside the with block of the temporary
\* file, before image_path is assigned.
AgentChatStreamCopyFails(r, t) ==
    /\ Arrives(r)
    /\ request' = [request EXCEPT ![r] =
                      [endpoint |-> "agent_chat_stream", thread_id |-> t, image_path |-> None,
                       memory_context |-> <<>>]]
    /\ contextCalls' = [contextCalls EXCEPT ![t] = @ + 1]
    /\ storeCalls' = [storeCalls EXCEPT ![r] = <<StoreCall("get_user_context", TRUE, <<>>)>>]
    /\ files' = [files EXCEPT ![r] = "saved"]
    /\ out' = [out EXCEPT ![r] = <<Item("error", <<"processing error">>)>>]
    /\ cpc' = [cpc EXCEPT ![r] = "done"]
    /\ UNCHANGED <<dbVars, store, vision, pc, msgs, rounds, llmIn, toolRuns, events>>

\* The caller goes away while the handler streams: the generator is closed at
\* its yield, its finally clause runs, and the run is cancelled with it.
Disconnect(r) ==
    /\ cpc[r] = "streaming"
    /\ cpc' = [cpc EXCEPT ![r] = "disconnected"]
    /\ events' = [events EXCEPT ![r] = <<>>]
    /\ files' = Unlinked(r)
    /\ pc' = [pc EXCEPT ![r] = IF @ \in Running THEN "cancelled" ELSE @]
    /\ UNCHANGED <<dbVars, storeCalls, contextCalls, store, vision, request, msgs, rounds, llmIn, toolRuns, out>>

\* ---------------------------------------------------------- specifications
Available == [is_available |-> TRUE, error_message |-> <<>>, analyze_function |-> "wrapper"]

\* Concurrent requests on all endpoints, against a backend that answers or asks
\* for a tool.
Init == InitWith({Available})

\* The first request names the first thread; a later one the same or another.
ThreadsOf(r) == IF r = 1 THEN {"s1"} ELSE Threads

Next ==
    \E r \in Reqs :
        \/ \E t \in ThreadsOf(r), endpoint \in {"chat", "chat_stream"} :
              Chat(r, t, <<"m">>, endpoint)
        \/ \E t \in ThreadsOf(r), file \in BOOLEAN, prompt \in {<<>>, Prompt} :
              AgentChatStream(r, t, file, prompt, <<"m">>)
        \/ PutInput(r)
        \/ ChatNode(r, BasicShapes)
        \/ AgentNode(r, BasicShapes, MaxRounds)
        \/ GenerateFails(r)
        \/ ToolNode(r)
        \/ Consume(r)
        \/ ChatReturn(r)
        \/ Cancel(r)

Spec == Init /\ [][Next]_vars

\* One turn on any endpoint, against every loader status, every kind of tool
\* request and every outcome of the analysis.
InitTurn == InitWith(VisionStatuses)

NextTurn ==
    \/ \E ctx \in Contexts, endpoint \in {"chat", "chat_stream"} :
          Chat(1, "s1", ctx, endpoint)
    \/ \E file \in BOOLEAN, prompt \in {<<>>, Prompt}, ctx \in Contexts :
          AgentChatStream(1, "s1", file, prompt, ctx)
    \/ \E ctx \in Contexts : BuildSseStream(1, "s1", ctx)
    \/ PutInput(1)
    \/ ChatNode(1, {Answer})
    \/ AgentNode(1, AllShapes, MaxRounds)
    \/ GenerateFails(1)
    \/ ToolNode(1)
    \/ Consume(1)
    \/ ChatReturn(1)
    \/ Cancel(1)

SpecTurn == InitTurn /\ [][NextTurn]_vars

\* One turn of the tool agent against a backend that may ask for a tool on every
\* response, consumed to the end of its event stream.
NextLoop ==
    \/ BuildSseStream(1, "s1", <<>>)
    \/ PutInput(1)
    \/ AgentNode(1, BasicShapes, MaxLoopRounds)
    \/ ToolNode(1)
    \/ Consume(1)

SpecLoop == Init /\ [][NextLoop]_vars

\* The context of a user whose records were saved one after the other: up to
\* MaxContextMemories memories, then up to MaxContextSessions sessions, with or
\* without preferences.
MaxContextMemories == 6
MaxContextSessions == 4

ContextMemoryInputs ==
    {[memory_type |-> "fact", content |-> <<"a">>, importance_score |-> 5],
     [memory_type |-> "fact", content |-> <<"a", "\n", "b">>, importance_score |-> 9],
     [memory_type |-> "preference", content |-> <<"b">>, importance_score |-> 4]}

InitContext ==
    /\ InitRequests({Available})
    /\ \E k \in 0..MaxContextMemories, n \in 0..MaxContextSessions :
          /\ \E saved \in [1..k -> ContextMemoryInputs] :
                long_term_memories =
                    [i \in 1..k |->
                        [id |-> i, user_id |-> "u1", memory_type |-> saved[i].memory_type,
                         content |-> saved[i].content, metadata |-> DictJson(<<>>),
                         importance_score |-> saved[i].importance_score,
                         updated_at |-> i]]
          /\ session_memory =
                [s \in 1..n |-> [user_id |-> "u1", summary |-> <<"s">>, updated_at |-> k + s]]
          /\ \E preferences \in {NULL, DictJson(<<>>), DictJson(<<"k">>)} :
                user_memory = [u \in {"u1"} |-> [preferences |-> preferences]]
          /\ clock = k + n
    /\ tongue_analysis_records = <<>>
    /\ reply = NoReply
    /\ txn = [x \in Txns |-> NoTxn]

NextContext == \E user_id \in Users : GetUserContext(user_id) /\ UNCHANGED <<TurnVars, txn>>

SpecContext == InitContext /\ [][NextContext]_vars

\* Calls on the memories of the long-term store: save_memory, search_memories
\* and get_user_context, for two users.
MaxMemories == 3
MaxClock == 1

Memory(user_id, memory_type, content, metadata, importance_score) ==
    [user_id |-> user_id, memory_type |-> memory_type, content |-> content,
     metadata |-> metadata, importance_score |-> importance_score]
MemoryInputs ==
    {Memory("u1", "fact", <<"a">>, <<>>, 5),
     Memory("u1", "preference", <<"b">>, <<>>, 5),
     Memory("u1", "fact", <<"a">>, <<"k">>, 11),
     Memory("u2", "fact", <<"a">>, <<>>, 4),
     Memory("u1", "fact", <<"b">>, <<>>, -1)}
Queries == {<<>>, <<"a">>, <<"_">>}

InitMemory == InitWith({Available})

NextMemory ==
    /\ \/ \E m \in MemoryInputs :
             SaveMemory(m.user_id, m.memory_type, m.content, m.metadata,
                        m.importance_score, MaxClock, MaxMemories)
       \/ \E user_id \in Users, query \in Queries, memory_type \in {None, "fact"},
             limit \in {1, 2}, min_importance \in {0, 5} :
             SearchMemories(user_id, query, memory_type, limit, min_importance)
       \/ \E user_id \in Users : GetUserContext(user_id)
    /\ UNCHANGED <<TurnVars, txn>>

SpecMemory == InitMemory /\ [][NextMemory]_vars

\* Writes to every table of the long-term store, in any order, by two users
\* who also share a session id.
MaxRecords == 2
PreferenceInputs == {<<>>, <<"j">>, <<"k">>}

NextIntegrity ==
    /\ \E user_id \in Users :
          \/ \E preferences \in PreferenceInputs : SaveUserPreference(user_id, preferences)
          \/ SaveSessionSummary("s1", user_id, <<"s">>, MaxClock)
          \/ SaveMemory(user_id, "fact", <<"a">>, <<>>, 5, MaxClock, MaxRecords)
          \/ SaveTongueAnalysis(user_id, "s1", MaxRecords)
    /\ UNCHANGED <<TurnVars, txn>>

SpecIntegrity == InitMemory /\ [][NextIntegrity]_vars

\* ------------------------------------------- transactions of the long-term store
\* The write operations of LongTermMemory, statement by statement, each inside
\* `with self._get_connection() as conn`, run side by side; the database is
\* PostgreSQL at its default isolation level (read committed).  What a
\* transaction has written is held in txn until it commits; rows get their
\* place in the table at commit; what it wrote stays on record in txn after it.
WriteOps == {"save_user_preference", "save_session_summary", "save_memory",
             "save_tongue_analysis"}
TxnSession == "s1"

\* What the user statements of the child writes do when the row is there.
ON_CONFLICT_absent == "unique_violation"
ON_CONFLICT == "DO NOTHING"

\* conn = psycopg2.connect(...); cursor = conn.cursor()
Begin(x, op, user_id) ==
    /\ txn[x].pc = "idle"
    /\ txn' = [txn EXCEPT ![x] = [NoTxn EXCEPT !.op = op, !.user_id = user_id,
                                                !.pc = "user", !.conn = "open"]]
    /\ UNCHANGED <<user_memory, long_term_memories, session_memory,
                   tongue_analysis_records, clock, reply>>

\* The tables as they are, and as they are once the writes of x are in them.
Tables ==
    [user_memory |-> user_memory, long_term_memories |-> long_term_memories,
     session_memory |-> session_memory, tongue_analysis_records |-> tongue_analysis_records]
Applied(x) ==
    LET t == txn[x]
    IN  [user_memory |->
            IF t.user = "none" THEN user_memory
            ELSE IF t.op = "save_user_preference"
            THEN Upsert(user_memory, t.user_id, [preferences |-> DictJson(<<"k">>)],
                        {"preferences"})
            ELSE EnsureUser(user_memory, t.user_id),
         long_term_memories |->
            IF t.child /\ t.op = "save_memory"
            THEN Append(long_term_memories,
                        [id |-> Len(long_term_memories) + 1, user_id |-> t.user_id,
                         memory_type |-> "fact", content |-> <<"a">>,
                         metadata |-> DictJson(<<>>), importance_score |-> 5,
                         updated_at |-> clock])
            ELSE long_term_memories,
         session_memory |->
            IF t.child /\ t.op = "save_session_summary"
            THEN Upsert(session_memory, TxnSession,
                        [user_id |-> t.user_id, summary |-> <<"s">>, updated_at |-> clock],
                        {"summary", "updated_at"})
            ELSE session_memory,
         tongue_analysis_records |->
            IF t.child /\ t.op = "save_tongue_analysis"
            THEN Append(tongue_analysis_records,
                        [id |-> Len(tongue_analysis_records) + 1, user_id |-> t.user_id,
                         session_id |-> TxnSession])
            ELSE tongue_analysis_records]

\* A rollback that lets the writes made so far stand.
rollback_partial(x) == Applied(x)
\* conn.rollback()
rollback(x) == Tables

\* The transaction is over, by conn.commit() or by conn.rollback() and raise, and
\* conn.close() has run in the finally clause.
Ends(x, tables, at, error) ==
    /\ user_memory' = tables.user_memory
    /\ long_term_memories' = tables.long_term_memories
    /\ session_memory' = tables.session_memory
    /\ tongue_analysis_records' = tables.tongue_analysis_records
    /\ txn' = [txn EXCEPT ![x] = [@ EXCEPT !.pc = at, !.error = error, !.conn = "closed"]]
    /\ UNCHANGED <<clock, reply>>

\* The statement goes on to the next one of the operation.
Goes(x, at, user, child) ==
    /\ txn' = [txn EXCEPT ![x] = [@ EXCEPT !.pc = at, !.user = user, !.child = child]]
    /\ UNCHANGED <<user_memory, long_term_memories, session_memory,
                   tongue_analysis_records, clock, reply>>

\* The first statement: INSERT INTO user_memory ... ON CONFLICT (user_id) DO
\* UPDATE (save_user_preference) or DO NOTHING (the child writes).  It waits
\* while another transaction has inserted the user and not ended; the update
\* waits also for another update of the row.
UserStatement(x) ==
    LET t == txn[x]
        inserting == \E y \in Txns \ {x} : /\ txn[y].conn = "open"
                                            /\ txn[y].user = "insert"
                                            /\ txn[y].user_id = t.user_id
        updating == \E y \in Txns \ {x} : /\ txn[y].conn = "open"
                                           /\ txn[y].user = "update"
                                           /\ txn[y].user_id = t.user_id
    IN  /\ t.pc = "user"
        /\ ~inserting
        /\ IF t.op = "save_user_preference"
           THEN /\ ~updating
                /\ Goes(x, "commit",
                        IF t.user_id \in DOMAIN user_memory THEN "update" ELSE "insert", FALSE)
           ELSE IF t.user_id \notin DOMAIN user_memory
           THEN Goes(x, "child", "insert", FALSE)
           ELSE IF ON_CONFLICT = "DO NOTHING"
           THEN Goes(x, "child", "none", FALSE)
           ELSE Ends(x, rollback(x), "raised", ON_CONFLICT)

\* The second statement of a child write: the INSERT of the child row, for
\* save_session_summary with ON CONFLICT (session_id) DO UPDATE, which waits
\* while another transaction has written the session row and not ended.
ChildStatement(x) ==
    /\ txn[x].pc = "child"
    /\ txn[x].op = "save_session_summary"
          => ~\E y \in Txns \ {x} : /\ txn[y].conn = "open"
                                      /\ txn[y].child
                                      /\ txn[y].op = "save_session_summary"
    /\ Goes(x, "commit", txn[x].user, TRUE)

\* The with block is left without an exception: conn.commit()
Commit(x) ==
    /\ txn[x].pc = "commit"
    /\ Ends(x, Applied(x), "done", "none")

\* A statement or the commit raises (connection lost, disk full, time-out):
\* except Exception: conn.rollback(); raise
Fail(x) ==
    /\ txn[x].pc \in {"user", "child", "commit"}
    /\ Ends(x, rollback(x), "raised", "fault")

NextTxn ==
    /\ \E x \in Txns :
          \/ \E op \in WriteOps, user_id \in Users : Begin(x, op, user_id)
          \/ UserStatement(x)
          \/ ChildStatement(x)
          \/ Commit(x)
          \/ Fail(x)
    /\ UNCHANGED TurnVars

SpecTxn == InitMemory /\ [][NextTxn]_vars

\* ------------------------------------------------------- analysis statistics
\* A key a dictionary does not have.
Absent == "absent"
\* An entry of the "positive" list of prediction_results.
Feature(chinese, english, probability) ==
    [chinese |-> chinese, english |-> english, probability |-> probability]
\* feature.get("chinese", feature.get("english", ""))
feature_name(feature) ==
    IF feature.chinese # Absent THEN feature.chinese
    ELSE IF feature.english # Absent THEN feature.english
    ELSE ""

\* A window that takes in every record.
InWindow_all(created_at, now, days) == TRUE
\* created_at >= CURRENT_TIMESTAMP - INTERVAL 'days days'
InWindow(created_at, now, days) == created_at + days >= now

\* ORDER BY created_at ASC over the selected rows: every sequence of ids the
\* database may answer with.
RECURSIVE Ascending(_, _)
Ascending(rows, selected) ==
    IF selected = {} THEN {<<>>}
    ELSE UNION {{<<i>> \o rest : rest \in Ascending(rows, selected \ {i})} :
                  i \in {j \in selected :
                            \A k \in selected : rows[j].created_at <= rows[k].created_at}}

\* The loop over the rows of get_tongue_analysis_stats: for every named feature
\* of every row, in order, its name, date and probability.
RECURSIVE FeatureEntries(_, _)
FeatureEntries(rows, ids) ==
    IF ids = <<>> THEN <<>>
    ELSE LET row == rows[Head(ids)]
             named == SelectSeq(row.positive, LAMBDA f : feature_name(f) # "")
         IN  [n \in 1..Len(named) |->
                 [name |-> feature_name(named[n]), date |-> row.created_at,
                  probability |-> named[n].probability]]
             \o FeatureEntries(rows, Tail(ids))

\* get_tongue_analysis_stats: the aggregates it may return.
get_tongue_analysis_stats(rows, user_id, days, now) ==
    {LET entries == FeatureEntries(rows, ids)
         dates == [n \in 1..Len(ids) |-> rows[ids[n]].created_at]
     IN  [total_records |-> Len(ids),
          date_range |-> [start |-> IF dates # <<>> THEN dates[1] ELSE None,
                          end |-> IF dates # <<>> THEN dates[Len(dates)] ELSE None],
          feature_trends |->
              [name \in {entries[n].name : n \in 1..Len(entries)} |->
                  LET of_name == SelectSeq(entries, LAMBDA e : e.name = name)
                  IN  [n \in 1..Len(of_name) |->
                          [date |-> of_name[n].date,
                           probability |-> of_name[n].probability]]],
          records |-> [n \in 1..Len(ids) |->
                          [date |-> rows[ids[n]].created_at,
                           prediction_results |-> rows[ids[n]].positive]]] :
        ids \in Ascending(rows, {i \in 1..Len(rows) :
                                    /\ rows[i].user_id = user_id
                                    /\ InWindow(rows[i].created_at, now, days)})}

\* The statistics route: get_tongue_analysis_stats answers.
GetTongueAnalysisStats(user_id, days) ==
    /\ \E stats \in get_tongue_analysis_stats(tongue_analysis_records, user_id, days, clock) :
          reply' = [op |-> "stats", user_id |-> user_id, days |-> days, stats |-> stats]
    /\ UNCHANGED <<user_memory, long_term_memories, session_memory,
                   tongue_analysis_records, clock, txn>>

\* Statistics over the records of two users, saved on the day StatsToday or
\* before, with the symptoms the analysis found.
MaxStatsRecords == 3
StatsToday == 2
\* The records saved: user, day and the positive list of prediction_results.
StatsInputs ==
    {<<"u1", StatsToday, <<>> >>,
     <<"u1", 0, <<Feature("x", "ex", 9)>> >>,
     <<"u1", StatsToday, <<Feature("x", "ex", 7), Feature(Absent, "y", 8)>> >>,
     <<"u1", StatsToday, <<Feature("x", "ex", 8), Feature("x", "ex", 6)>> >>,
     <<"u1", 0, <<Feature(Absent, Absent, 9), Feature("", "y", 9)>> >>,
     <<"u2", StatsToday, <<Feature("x", "ex", 9)>> >>}

InitStats ==
    /\ InitRequests({Available})
    /\ \E k \in 0..MaxStatsRecords :
          \E saved \in [1..k -> StatsInputs] :
             /\ tongue_analysis_records =
                   [i \in 1..k |->
                       [id |-> i, user_id |-> saved[i][1], session_id |-> "s1",
                        positive |-> saved[i][3], created_at |-> saved[i][2]]]
             /\ user_memory = [u \in {saved[i][1] : i \in 1..k} |-> [preferences |-> NULL]]
    /\ long_term_memories = <<>>
    /\ session_memory = <<>>
    /\ clock = StatsToday
    /\ reply = NoReply
    /\ txn = [x \in Txns |-> NoTxn]

NextStats ==
    \E user_id \in Users, days \in {1, 3} :
        GetTongueAnalysisStats(user_id, days) /\ UNCHANGED TurnVars

SpecStats == InitStats /\ [][NextStats]_vars

\* ----------------------------------------------------------------- handlers
\* The requests before r have been answered and their runs are over.
Answered(r) ==
    \A q \in Reqs : q < r => cpc[q] \in {"done", "disconnected"} /\ pc[q] \notin Running

\* Every endpoint that runs an agent, one request after the other, against every
\* loader status, with the long-term store, the upload and the backend failing
\* or not, and the caller staying or going away.
NextHandlers ==
    \E r \in Reqs :
        \/ \E t \in ThreadsOf(r), endpoint \in {"chat", "chat_stream"} :
              Answered(r) /\ Chat(r, t, <<"m">>, endpoint)
        \/ \E t \in ThreadsOf(r), file \in BOOLEAN, prompt \in {<<>>, Prompt} :
              Answered(r) /\ AgentChatStream(r, t, file, prompt, <<"m">>)
        \/ \E session_id \in ThreadsOf(r) \cup {None} :
              Answered(r) /\ AnalyzeTongue(r, session_id)
        \/ Answered(r) /\ AnalyzeTongueStream(r)
        \/ \E session_id \in ThreadsOf(r) \cup {None}, copied \in BOOLEAN,
              outcome \in Outcomes :
              Answered(r) /\ PredictAndAnalyzeStream(r, session_id, copied, outcome)
        \/ \E t \in ThreadsOf(r), endpoint \in {"chat", "chat_stream", "agent_chat_stream"} :
              Answered(r) /\ ContextFails(r, t, endpoint)
        \/ \E t \in ThreadsOf(r) : Answered(r) /\ AgentChatStreamCopyFails(r, t)
        \/ PutInput(r)
        \/ ChatNode(r, {Answer})
        \/ AgentNode(r, BasicShapes, MaxRounds)
        \/ AnalyzeNode(r, {Answer})
        \/ GenerateFails(r)
        \/ ToolNode(r)
        \/ Consume(r)
        \/ \E saved \in BOOLEAN : ConsumeAnalysis(r, saved)
        \/ ChatReturn(r)
        \/ \E saved \in BOOLEAN : AnalyzeReturn(r, saved)
        \/ Cancel(r)
        \/ Disconnect(r)

SpecHandlers == InitTurn /\ [][NextHandlers]_vars

\* ------------------------------------------------------------------- replay
\* A deterministic backend: it asks for the analysis of an image when the log
\* ends with the user's message and answers when it ends with anything else.
StubShape(messages) ==
    IF messages # <<>> /\ Last(messages).type = "human"
    THEN [content |-> <<"t">>, tool_calls |-> <<ToolCall("c1", PredictTool, LlmPath)>>]
    ELSE Answer

\* A deterministic tool: the analysis function returns its result.
StubOutcome == [kind |-> "ok", text |-> <<>>]

\* The same turn on two fresh sessions, request 1 on the first and request 2 on
\* the second, against the deterministic backend and tool.
ReplayThread(r) == IF r = 1 THEN "s1" ELSE "s2"
SameTurn(r, endpoint) == r > 1 => request[1].endpoint = endpoint

NextReplay ==
    \E r \in Reqs :
        \/ \E endpoint \in {"chat", "chat_stream"} :
              SameTurn(r, endpoint) /\ Chat(r, ReplayThread(r), <<>>, endpoint)
        \/ /\ SameTurn(r, "agent_chat_stream")
           /\ AgentChatStream(r, ReplayThread(r), FALSE, Prompt, <<>>)
        \/ SameTurn(r, "build_sse_stream") /\ BuildSseStream(r, ReplayThread(r), <<>>)
        \/ PutInput(r)
        \/ ChatNode(r, {Answer})
        \/ AgentNode(r, {StubShape(msgs[r])}, MaxRounds)
        \/ /\ ToolNode(r)
           /\ pc'[r] = "agent"
           /\ \A i \in 1..Len(toolRuns'[r]) : toolRuns'[r][i].outcome = StubOutcome
        \/ Consume(r)
        \/ ChatReturn(r)
        \/ Cancel(r)

SpecReplay == Init /\ [][NextReplay]_vars

\* ------------------------------------------------------------------ claims
IsAnswer(m) == m.type = "ai" /\ m.tool_calls = <<>>
HasDone(items) == \E i \in 1..Len(items) : items[i] = DONE
HasError(items) == \E i \in 1..Len(items) : items[i].type = "error"
ToolAgent == {"agent_chat_stream", "build_sse_stream"}

\* C1: a tool-enabled turn is done only after a backend response that carries no
\* tool calls: its graph run ends on such a response, and the stream of the turn
\* carries the done marker only once the turn has such a response in its log.
C1_DoneOnlyAfterAnswer ==
    \A r \in Reqs :
        request[r].endpoint \in ToolAgent =>
            /\ pc[r] = "END" => IsAnswer(Last(msgs[r]))
            /\ HasDone(out[r]) =>
                  \E i \in 1..Len(msgs[r]) : msgs[r][i].turn = r /\ IsAnswer(msgs[r][i])

\* C2: once the tool step has run on an assistant message with k tool calls, the
\* next k messages of the log are tool results, the j-th carrying the id of the
\* j-th call, and no further tool result follows them.
C2_OneResultPerCall ==
    \A r \in Reqs :
        \A i \in 1..Len(msgs[r]) :
            LET m == msgs[r][i]
                k == Len(m.tool_calls)
            IN  (m.type = "ai" /\ m.turn = r /\ k >= 1 /\ (i < Len(msgs[r]) \/ pc[r] = "agent")) =>
                    /\ Len(msgs[r]) >= i + k
                    /\ \A j \in 1..k :
                          /\ msgs[r][i + j].type = "tool"
                          /\ msgs[r][i + j].tool_call_id = m.tool_calls[j].id
                    /\ Len(msgs[r]) > i + k => msgs[r][i + k + 1].type # "tool"

\* A message of two calls answered by two results of different kinds: the first
\* call had no image path, the second named an unknown tool.
C2_Witness ==
    \E r \in Reqs :
        \E i \in 1..Len(msgs[r]) :
            /\ Len(msgs[r][i].tool_calls) = 2
            /\ Len(msgs[r]) >= i + 2
            /\ msgs[r][i + 1] = ToolMessage(MsgNoImagePath, "c1", r)
            /\ msgs[r][i + 2] = ToolMessage(<<MsgUnknownTool, OtherTool>>, "c2", r)

\* C3: once a session has had a generation its log holds exactly one system
\* message, and every system message handed to the backend is one of the log.
C3_OneSystemMessage ==
    /\ \A t \in Threads :
          (\E i \in 1..Len(store[t]) : store[t][i].type = "ai") =>
              Cardinality({i \in 1..Len(store[t]) : store[t][i].type = "system"}) = 1
    /\ \A r \in Reqs :
          \A i \in 1..Len(llmIn[r]) :
              llmIn[r][i].type = "system" =>
                  \E j \in 1..Len(store[request[r].thread_id]) :
                      store[request[r].thread_id][j] = llmIn[r][i]

RequestsTools(m) == m.type = "ai" /\ m.tool_calls # <<>>

\* C4: a thread id has at most one executing turn at a time, and once a turn has
\* ended each of its messages is in the log of its thread.
C4_SingleFlight ==
    /\ \A p, q \in Reqs :
          (p # q /\ pc[p] \in Running /\ pc[q] \in Running) =>
              request[p].thread_id # request[q].thread_id
    /\ \A r \in Reqs :
          pc[r] = "END" =>
              \A i \in 1..Len(msgs[r]) :
                  msgs[r][i].turn = r =>
                      \E j \in 1..Len(store[request[r].thread_id]) :
                          store[request[r].thread_id][j] = msgs[r][i]

\* C5: a turn has at most 8 generate/tool rounds: its log never holds more than 8
\* of its responses that request tools.
C5_LoopLimit ==
    \A r \in Reqs :
        Cardinality({i \in 1..Len(msgs[r]) :
                        msgs[r][i].turn = r /\ RequestsTools(msgs[r][i])}) <= 8

\* C6: for a call of a tool that is not registered the tool step appends exactly
\* one tool result, with the unknown-tool text and the call's id; the tool step
\* raises nothing; and the run does not end before the backend has generated
\* again with that result in its input.
C6_UnknownTool ==
    \A r \in Reqs :
        /\ \A i \in 1..Len(msgs[r]) :
              LET m == msgs[r][i]
                  k == Len(m.tool_calls)
              IN  (RequestsTools(m) /\ m.turn = r /\ (i < Len(msgs[r]) \/ pc[r] = "agent")) =>
                      \A j \in 1..k :
                          m.tool_calls[j].name # PredictTool =>
                              /\ Len(msgs[r]) >= i + k
                              /\ msgs[r][i + j] =
                                    ToolMessage(<<MsgUnknownTool, m.tool_calls[j].name>>,
                                                m.tool_calls[j].id, r)
                              /\ Cardinality({n \in 1..k : msgs[r][i + n].tool_call_id
                                                            = m.tool_calls[j].id}) = 1
        /\ pc[r] = "error" => ~RequestsTools(Last(msgs[r]))
        /\ pc[r] = "END" =>
              /\ IsAnswer(Last(msgs[r]))
              /\ \A i \in 1..Len(msgs[r]) :
                    (msgs[r][i].type = "tool" /\ msgs[r][i].turn = r) =>
                        \E j \in 1..Len(llmIn[r]) : llmIn[r][j] = msgs[r][i]

\* A turn that ended with the result of an unknown tool in its log.
C6_Witness ==
    \E r \in Reqs :
        /\ pc[r] = "END"
        /\ \E i \in 1..Len(msgs[r]) :
              msgs[r][i] = ToolMessage(<<MsgUnknownTool, OtherTool>>, "c1", r)

\* The runs of the latest tool step of r that invoked the handler and met a
\* failure of the analysis: the module unavailable, its function missing, the
\* function raising, the function returning nothing.
FailedRuns(r) ==
    {i \in 1..Len(toolRuns[r]) :
        /\ toolRuns[r][i].invoked
        /\ \/ ~CallsAnalyze(vision)
           \/ toolRuns[r][i].outcome.kind \in {"raise", "none"}}

\* C7 (as the code has it): when the analysis fails the handler returns a
\* structured error result and raises nothing; the content of the tool result
\* holds the error reason as json.dumps writes it, with a backslash before each
\* quote and backslash (so the reason itself when it has neither); and the run
\* goes back to generation.
C7_ErrorReasonEncoded ==
    \A r \in Reqs :
        /\ \A i \in FailedRuns(r) :
              LET run == toolRuns[r][i]
              IN  /\ DOMAIN run.result = {"error", "positive", "negative"}
                  /\ run.result.positive = <<>> /\ run.result.negative = <<>>
                  /\ run.message.type = "tool"
                  /\ run.message.tool_call_id = run.call.id
                  /\ Contains(run.message.content, JsonEscape(run.result.error))
                  /\ JsonEscape(run.result.error) = run.result.error =>
                        Contains(run.message.content, run.result.error)
                  /\ \E j \in 1..Len(msgs[r]) : msgs[r][j] = run.message
        /\ pc[r] = "error" => ~RequestsTools(Last(msgs[r]))
        /\ (toolRuns[r] # <<>> /\ Last(msgs[r]).type = "tool") =>
              pc[r] \in {"agent", "error", "cancelled"}

\* C7 as stated: the content of the tool result holds the error reason itself.
C7_ErrorReasonLiteral ==
    \A r \in Reqs :
        \A i \in FailedRuns(r) :
            /\ "error" \in DOMAIN toolRuns[r][i].result
            /\ Contains(toolRuns[r][i].message.content, toolRuns[r][i].result.error)

\* The analysis raised with a quote in its text, and the run is back at generation.
C7_Witness ==
    \E r \in Reqs :
        /\ pc[r] = "agent"
        /\ \E i \in FailedRuns(r) :
              /\ toolRuns[r][i].outcome.kind = "raise"
              /\ JsonEscape(toolRuns[r][i].result.error) # toolRuns[r][i].result.error

\* C8: a predict call without an image path in its arguments, in a turn without
\* an image path in its state, gets the no-image-path tool result with its id;
\* the handler is not invoked for it; the tool step raises nothing; and every
\* call of the message has its run and its result in the log.
C8_NoImagePath ==
    \A r \in Reqs :
        /\ \A i \in 1..Len(toolRuns[r]) :
              LET run == toolRuns[r][i]
              IN  (/\ run.call.name = PredictTool
                   /\ Falsy(run.call.args.image_path)
                   /\ Falsy(request[r].image_path)) =>
                      /\ run.message = ToolMessage(MsgNoImagePath, run.call.id, r)
                      /\ ~run.invoked
                      /\ \E j \in 1..Len(msgs[r]) : msgs[r][j] = run.message
        /\ toolRuns[r] # <<>> =>
              \E i \in 1..Len(msgs[r]) :
                  /\ msgs[r][i].turn = r
                  /\ Len(msgs[r][i].tool_calls) = Len(toolRuns[r])
                  /\ Len(msgs[r]) >= i + Len(toolRuns[r])
                  /\ \A j \in 1..Len(toolRuns[r]) :
                        /\ toolRuns[r][j].call = msgs[r][i].tool_calls[j]
                        /\ msgs[r][i + j] = toolRuns[r][j].message
        /\ pc[r] = "error" => ~RequestsTools(Last(msgs[r]))

\* A predict call without any image path was answered, and so was the call
\* after it in the same message.
C8_Witness ==
    \E r \in Reqs :
        /\ Falsy(request[r].image_path)
        /\ Len(toolRuns[r]) = 2
        /\ toolRuns[r][1].call = ToolCall("c1", PredictTool, "")
        /\ toolRuns[r][1].message.content = MsgNoImagePath
        /\ ~toolRuns[r][1].invoked
        /\ toolRuns[r][2].message.content = <<MsgUnknownTool, OtherTool>>

\* C9: nothing follows a done marker on a stream, and a streamed turn that has
\* completed without an error event has its done marker as its last item (so
\* exactly one).
C9_OneDoneLast ==
    \A r \in Reqs :
        request[r].endpoint \in Streaming =>
            /\ \A i \in 1..Len(out[r]) : out[r][i] = DONE => i = Len(out[r])
            /\ (cpc[r] = "done" /\ ~HasError(out[r])) =>
                  (out[r] # <<>> /\ Last(out[r]) = DONE)

\* A tool-agent stream that sent content and then its done marker.
C9_Witness ==
    \E r \in Reqs :
        /\ request[r].endpoint = "agent_chat_stream"
        /\ cpc[r] = "done"
        /\ Len(out[r]) >= 2
        /\ out[r][1].type = "content"
        /\ Last(out[r]) = DONE

\* C10: a streamed turn that has completed with an error has exactly one error
\* event on its stream, followed by the done marker.
C10_ErrorThenDone ==
    \A r \in Reqs :
        (request[r].endpoint \in Streaming /\ cpc[r] = "done" /\ HasError(out[r])) =>
            /\ Cardinality({i \in 1..Len(out[r]) : out[r][i].type = "error"}) = 1
            /\ Last(out[r]) = DONE

\* The content fragments of a stream, joined in the order they were sent.
RECURSIVE StreamedContent(_)
StreamedContent(items) ==
    IF items = <<>> THEN <<>>
    ELSE (IF Head(items).type = "content" THEN Head(items).data ELSE <<>>)
         \o StreamedContent(Tail(items))

\* C11: when a streamed turn has sent its done marker, the content fragments of
\* the stream, joined in the order sent, are the content of the turn's final
\* answer (its assistant message without tool calls).
C11_FragmentsMakeAnswer ==
    \A r \in Reqs :
        (request[r].endpoint \in Streaming /\ HasDone(out[r])) =>
            \E i \in 1..Len(msgs[r]) :
                /\ msgs[r][i].turn = r
                /\ IsAnswer(msgs[r][i])
                /\ StreamedContent(out[r]) = msgs[r][i].content

ChatEndpoints == {"chat", "chat_stream"}

\* C12: when the second chat turn of a session generates after the first turn
\* has ended with its answer, the backend receives exactly four messages, in the
\* order system, user, assistant, user: the three of turn 1 as turn 1 left them,
\* then the new user message.
C12_Continuity ==
    (/\ request[1].endpoint \in ChatEndpoints
     /\ request[2].endpoint \in ChatEndpoints
     /\ request[1].thread_id = request[2].thread_id
     /\ \E i \in 1..Len(llmIn[2]) : llmIn[2][i].turn = 1 /\ IsAnswer(llmIn[2][i])) =>
        /\ [j \in 1..Len(llmIn[2]) |-> llmIn[2][j].type] = <<"system", "human", "ai", "human">>
        /\ \A j \in 1..3 : llmIn[2][j].turn = 1
        /\ llmIn[2][4] = HumanMessage(Prompt, 2)

\* C13: a step changes the log of a thread only when it is a step of a turn
\* running on that thread, and every message of a thread's log was appended by
\* a turn of that thread.
C13_SessionIsolation ==
    [][\A t \in Threads :
          /\ store'[t] # store[t] =>
                \E r \in Reqs :
                    request[r].thread_id = t /\ pc[r] \in Running /\ pc'[r] # pc[r]
          /\ \A i \in 1..Len(store'[t]) :
                request'[store'[t][i].turn].thread_id = t]_vars

\* Two turns of different threads have both ended with their messages logged.
C13_Witness ==
    /\ request[1].thread_id = "s1" /\ pc[1] = "END"
    /\ request[2].thread_id = "s2" /\ pc[2] = "END"
    /\ store["s1"] # <<>> /\ store["s2"] # <<>>

IsPrefix(a, b) == Len(a) <= Len(b) /\ SubSeq(b, 1, Len(a)) = a

\* C14: the log of a thread is append-only: over every step the log as it was
\* is a prefix of the log as it becomes.
C14_AppendOnly ==
    [][\A t \in Threads : IsPrefix(store[t], store'[t])]_vars

\* C15: get_user_context is called at most once for a session, and only for its
\* first turn, when the session has no log yet.
C15_ContextOnce ==
    [][\A t \in Threads :
          /\ contextCalls'[t] <= 1
          /\ contextCalls'[t] # contextCalls[t] => store[t] = <<>>]_vars


\* How often a token occurs in a text, and where a piece of text first starts in
\* it (0 when nowhere).
RECURSIVE Count(_, _)
Count(text, token) ==
    IF text = <<>> THEN 0
    ELSE (IF Head(text) = token THEN 1 ELSE 0) + Count(Tail(text), token)
FirstAt(text, piece) ==
    LET at == {i \in 1..Len(text) :
                  i + Len(piece) - 1 <= Len(text) /\ SubSeq(text, i, i + Len(piece) - 1) = piece}
    IN  IF at = {} THEN 0 ELSE CHOOSE i \in at : \A j \in at : i <= j
\* The rows get_user_context draws on for a user.
EligibleMemories(user_id) ==
    {i \in 1..Len(long_term_memories) :
        long_term_memories[i].user_id = user_id /\ long_term_memories[i].importance_score >= 5}
SessionsOf(user_id) == {s \in DOMAIN session_memory : session_memory[s].user_id = user_id}
\* The section of a heading is in the context; of two headings both there, the
\* first comes first.
HasSection(context, header) == FirstAt(context, header) # 0
InOrder(context, first, second) ==
    (HasSection(context, first) /\ HasSection(context, second))
        => FirstAt(context, first) < FirstAt(context, second)

\* C16 (as the code has it): the context get_user_context returns has its
\* sections in the order preferences, important memories, recent session
\* summaries; a section is there exactly when the user has preferences, has
\* memories of importance 5 or more, has sessions, and the context is the empty
\* text when none is; the memories section has at most 5 entries, one for each
\* of min(5, stored) memories of importance 5 or more, and the sessions section at
\* most 3 entries, however many records are stored.  An entry is one line only
\* when its content holds no line break.
C16_ContextSections ==
    reply.op = "context" =>
        LET context == reply.context
            user_id == reply.user_id
            memories == Count(context, "- [")
            sessions == Count(context, "- ")
            preferences == get_user_preference(user_memory, user_id)
            Min(a, b) == IF a < b THEN a ELSE b
        IN  /\ InOrder(context, PreferencesHeader, MemoriesHeader)
            /\ InOrder(context, PreferencesHeader, SessionsHeader)
            /\ InOrder(context, MemoriesHeader, SessionsHeader)
            /\ HasSection(context, PreferencesHeader) <=> preferences \notin {<<>>, NoPreferences}
            /\ HasSection(context, MemoriesHeader) <=> EligibleMemories(user_id) # {}
            /\ HasSection(context, SessionsHeader) <=> SessionsOf(user_id) # {}
            /\ (context = <<>>) <=> (/\ preferences \in {<<>>, NoPreferences}
                                      /\ EligibleMemories(user_id) = {}
                                      /\ SessionsOf(user_id) = {})
            /\ memories = Min(5, Cardinality(EligibleMemories(user_id)))
            /\ sessions = Min(3, Cardinality(SessionsOf(user_id)))
            /\ \A n \in 1..Len(reply.summary.important_memories) :
                  reply.summary.important_memories[n].importance_score >= 5

\* C16: more eligible memories and more sessions are stored than the context
\* shows, and all three sections are there.
C16_Witness ==
    /\ reply.op = "context"
    /\ Cardinality(EligibleMemories(reply.user_id)) > 5
    /\ Cardinality(SessionsOf(reply.user_id)) > 3
    /\ Count(reply.context, "- [") = 5
    /\ Count(reply.context, "- ") = 3
    /\ HasSection(reply.context, PreferencesHeader)

\* C16 (as stated): the same with lines for entries: the memories section has at
\* most 5 lines under its heading and the sessions section at most 3.
C16_ContextLines ==
    reply.op = "context" =>
        /\ InOrder(reply.context, PreferencesHeader, MemoriesHeader)
        /\ InOrder(reply.context, MemoriesHeader, SessionsHeader)
        /\ reply.summary.important_memories # <<>> =>
              1 + Count(memories_text(reply.summary.important_memories), "\n") <= 5
        /\ reply.summary.recent_sessions # <<>> =>
              1 + Count(sessions_text(reply.summary.recent_sessions), "\n") <= 3


\* C17: for fixed store contents two calls of get_user_context for the same user
\* return the identical text, also when memories tie on importance and
\* updated_at; and the call changes nothing in the store.
C17_ContextDeterministic ==
    [][reply'.op = "context" =>
          /\ UNCHANGED <<user_memory, long_term_memories, session_memory,
                         tongue_analysis_records>>
          /\ (reply.op = "context" /\ reply.user_id = reply'.user_id)
                => reply'.context = reply.context]_vars


\* The stored row of a memory search_memories returned.
RowOf(memory) == long_term_memories[memory.id]
\* The rows the search of a reply is to select: of that user, of importance
\* min_importance or more, of the kind when one is given, with the query a
\* piece of the content or of the metadata when one is given.
Selected(r) ==
    {i \in 1..Len(long_term_memories) :
        LET row == long_term_memories[i]
        IN  /\ row.user_id = r.user_id
            /\ row.importance_score >= r.min_importance
            /\ r.memory_type # None => row.memory_type = r.memory_type
            /\ r.query # <<>> =>
                  Contains(row.content, r.query) \/ Contains(row.metadata, r.query)}

\* C18: search_memories returns only records of the user with importance of
\* min_importance or more, of the kind asked for, and holding the query as a
\* substring of content or metadata; sorted by importance, highest first, ties
\* by updated_at, latest first; at most limit records, the first of that order.
C18_SearchMemories ==
    reply.op = "search" =>
        LET memories == reply.memories
            ids == {memories[n].id : n \in 1..Len(memories)}
        IN  /\ ids \subseteq Selected(reply)
            /\ \A n, m \in 1..Len(memories) :
                  n < m => ~MemoryBefore(RowOf(memories[m]), RowOf(memories[n]))
            /\ Len(memories) <= reply.limit
            /\ Cardinality(ids) = Len(memories)
            /\ \A i \in Selected(reply) \ ids :
                  /\ Len(memories) = reply.limit
                  /\ \A n \in 1..Len(memories) :
                        ~MemoryBefore(long_term_memories[i], RowOf(memories[n]))

\* C19: every stored memory has an importance from 0 to 10, whatever importance
\* save_memory was called with.
C19_ImportanceClamped ==
    \A i \in 1..Len(long_term_memories) :
        /\ 0 <= long_term_memories[i].importance_score
        /\ long_term_memories[i].importance_score <= 10


\* C20: in every state of the long-term store each memory, each session summary
\* and each analysis record names a user that has a row in user_memory.
C20_ReferentialIntegrity ==
    /\ \A i \in 1..Len(long_term_memories) :
          long_term_memories[i].user_id \in DOMAIN user_memory
    /\ \A s \in DOMAIN session_memory :
          session_memory[s].user_id \in DOMAIN user_memory
    /\ \A i \in 1..Len(tongue_analysis_records) :
          tongue_analysis_records[i].user_id \in DOMAIN user_memory

\* C20: all three tables hold rows, of both users, and no preferences were ever
\* saved: the user rows come from the child writes.
C20_Witness ==
    /\ \E i \in 1..Len(long_term_memories) : long_term_memories[i].user_id = "u1"
    /\ \E i \in 1..Len(tongue_analysis_records) : tongue_analysis_records[i].user_id = "u2"
    /\ "s1" \in DOMAIN session_memory
    /\ DOMAIN user_memory = Users
    /\ \A u \in Users : user_memory[u].preferences = NULL


\* C22: what get_user_preference returns for a user is, after a
\* save_user_preference for that user, the map it was called with, whatever
\* was stored before; and every other operation of the store leaves it as it
\* was.
C22_PreferencesLastSaved ==
    [][\A u \in Users :
          LET before == get_user_preference(user_memory, u)
              after == get_user_preference(user_memory', u)
          IN  /\ \A p \in PreferenceInputs : SaveUserPreference(u, p) => after = p
              /\ (~\E p \in PreferenceInputs : SaveUserPreference(u, p)) => after = before]_vars

\* C22: a user has preferences stored and also a memory, a session summary and
\* analysis records, whose writes upserted the user.
C22_Witness ==
    /\ get_user_preference(user_memory, "u1") = <<"j">>
    /\ get_user_preference(user_memory, "u2") = <<>>
    /\ \E i \in 1..Len(long_term_memories) : long_term_memories[i].user_id = "u1"
    /\ \E i \in 1..Len(tongue_analysis_records) : tongue_analysis_records[i].user_id = "u1"
    /\ \E i \in 1..Len(tongue_analysis_records) : tongue_analysis_records[i].user_id = "u2"
    /\ "s1" \in DOMAIN session_memory /\ session_memory["s1"].user_id = "u1"

\* C23: no step of the store changes or removes a memory or an analysis record
\* there is: both tables only grow at their end.
C23_RecordsImmutable ==
    [][/\ IsPrefix(long_term_memories, long_term_memories')
       /\ IsPrefix(tongue_analysis_records, tongue_analysis_records')]_vars

\* C23: memories and analysis records were added to tables that held some.
C23_Witness ==
    /\ Len(long_term_memories) = MaxRecords
    /\ Len(tongue_analysis_records) = MaxRecords
    /\ user_memory # <<>> /\ session_memory # <<>>


\* The transactions that have committed an operation.
Committed(op) == {x \in Txns : txn[x].pc = "done" /\ txn[x].op = op}

\* C21: however the writes for a user interleave, none of them fails over
\* another (a write raises only when its connection or a statement failed on its
\* own), the writes in flight never all wait for one another, and every write
\* that committed has its user row - one row, user_memory being keyed by
\* user_id - and its child row in the tables.
C21_ConcurrentUpsert ==
    /\ \A x \in Txns : txn[x].error \in {"none", "fault"}
    /\ (\E x \in Txns : txn[x].conn = "open")
          => \E x \in Txns : ENABLED (UserStatement(x) \/ ChildStatement(x) \/ Commit(x))
    /\ \A x \in Txns : txn[x].pc = "done" => txn[x].user_id \in DOMAIN user_memory
    /\ Len(long_term_memories) >= Cardinality(Committed("save_memory"))
    /\ Len(tongue_analysis_records) >= Cardinality(Committed("save_tongue_analysis"))
    /\ Committed("save_session_summary") # {} => TxnSession \in DOMAIN session_memory

\* C21: a memory and an analysis record of a user unknown before were saved, the
\* second write finding the user row the first had inserted; a third write for
\* the user has begun.
C21_Witness ==
    /\ txn[1].pc = "done" /\ txn[1].op = "save_memory" /\ txn[1].user = "insert"
    /\ txn[2].pc = "done" /\ txn[2].op = "save_tongue_analysis" /\ txn[2].user = "none"
    /\ txn[3].pc = "user" /\ txn[3].op = "save_user_preference"
    /\ \A x \in Txns : txn[x].user_id = "u1"
    /\ DOMAIN user_memory = {"u1"}
    /\ Len(long_term_memories) = 1 /\ Len(tongue_analysis_records) = 1

\* C24: the step in which a write operation raises leaves every table as it
\* was, with its connection closed, as is the connection of every operation
\* that is over; nothing of a failed operation is in the store: the users there
\* are those of committed operations, and the memories and analysis records
\* are as many as were committed.
C24_FailureRollsBack ==
    [][/\ \A x \in Txns :
             /\ (txn'[x].pc = "raised" /\ txn[x].pc # "raised")
                   => UNCHANGED <<user_memory, long_term_memories, session_memory,
                                  tongue_analysis_records>>
             /\ txn'[x].pc \in {"done", "raised"} => txn'[x].conn = "closed"
       /\ DOMAIN user_memory' \subseteq {txn'[x].user_id : x \in {y \in Txns : txn'[y].pc = "done"}}
       /\ Len(long_term_memories') = Cardinality({x \in Txns : /\ txn'[x].pc = "done"
                                                              /\ txn'[x].op = "save_memory"})
       /\ Len(tongue_analysis_records') =
             Cardinality({x \in Txns : /\ txn'[x].pc = "done"
                                       /\ txn'[x].op = "save_tongue_analysis"})]_vars

\* C24: a save_memory for a new user failed after it had inserted the user row
\* and the memory, and neither is in the store.
C24_Witness ==
    /\ txn[1].pc = "raised" /\ txn[1].op = "save_memory"
    /\ txn[1].user = "insert" /\ txn[1].child
    /\ txn[1].conn = "closed"
    /\ txn[1].user_id \notin DOMAIN user_memory
    /\ long_term_memories = <<>>
    /\ \E x \in Txns : txn[x].pc = "done"


\* The records of the user of a statistics reply that lie in its window.
InStatsWindow(r) ==
    {i \in 1..Len(tongue_analysis_records) :
        /\ tongue_analysis_records[i].user_id = r.user_id
        /\ tongue_analysis_records[i].created_at + r.days >= clock}
\* The places where a symptom of the name stands in the positive lists of records.
Occurrences(ids, name) ==
    {p \in ids \X (1..2) :
        /\ p[2] <= Len(tongue_analysis_records[p[1]].positive)
        /\ LET f == tongue_analysis_records[p[1]].positive[p[2]]
           IN  name = (IF f.chinese # Absent THEN f.chinese ELSE f.english)}

\* C26: get_tongue_analysis_stats reports as total the number of records of the
\* user in the trailing window; with no such record it returns total 0, no
\* date range and no trends; and for each symptom name it has as many trend
\* entries as the name occurs in the positive lists of those records.
C26_AnalysisStats ==
    reply.op = "stats" =>
        LET stats == reply.stats
            ids == InStatsWindow(reply)
        IN  /\ stats.total_records = Cardinality(ids)
            /\ ids = {} => /\ stats.total_records = 0
                           /\ stats.date_range = [start |-> None, end |-> None]
                           /\ DOMAIN stats.feature_trends = {}
            /\ \A name \in {"x", "y", "ex"} :
                  Cardinality(Occurrences(ids, name))
                     = IF name \in DOMAIN stats.feature_trends
                       THEN Len(stats.feature_trends[name]) ELSE 0

\* C26: two records in the window and one outside it, a symptom that occurs
\* three times and one that occurs once.
C26_Witness ==
    /\ reply.op = "stats"
    /\ reply.stats.total_records = 2
    /\ \E i \in 1..Len(tongue_analysis_records) :
          /\ tongue_analysis_records[i].user_id = reply.user_id
          /\ i \notin InStatsWindow(reply)
    /\ "x" \in DOMAIN reply.stats.feature_trends /\ Len(reply.stats.feature_trends["x"]) = 3
    /\ "y" \in DOMAIN reply.stats.feature_trends /\ Len(reply.stats.feature_trends["y"]) = 1


\* A call of request r on the long-term store raised.
StoreFailed(r) == \E i \in 1..Len(storeCalls[r]) : ~storeCalls[r][i].ok

\* C25: no error of the long-term store reaches the caller. When a store call of
\* a turn has failed (the context read of a first turn, the save of the analysis
\* record) and the backend has not, the handler has still run the turn and
\* answers with what was generated, without an error item or an error status.
C25_StoreErrorsSwallowed ==
    \A r \in Reqs :
        (cpc[r] = "done" /\ StoreFailed(r) /\ pc[r] # "error") =>
            /\ pc[r] # "none"
            /\ \A i \in 1..Len(out[r]) : out[r][i].type \notin {"error", "http_500"}
            /\ request[r].endpoint = "analyze" =>
                  out[r] = <<Item("response", Last(msgs[r]).content)>>


\* The handler of request r has ended: it returned, raised, or was closed because
\* the caller went away.
Ended(c) == c \in {"done", "disconnected"}

\* C27: the temporary resources of a streamed turn are released on every way the
\* turn ends. Once the handler has finished, returned early, raised or been
\* closed by the caller's disconnection, the file saved for its upload exists no
\* more, and from then on nothing is sent for the turn.
C27_TempFilesReleased ==
    [][\A r \in Reqs :
          /\ Ended(cpc'[r]) => files'[r] # "saved"
          /\ Ended(cpc[r]) => out'[r] = out[r]]_vars


\* The attempts of request r to save its analysis.
SaveAttempts(r) == SelectSeq(storeCalls[r], LAMBDA c : c.op = "save_tongue_analysis")

\* The handler of an analysis turn has delivered an answer: the response of
\* analyze, or a stream ended by the done marker.
DeliversAnswer(r) ==
    /\ request[r].endpoint \in TongueEndpoints
    /\ cpc[r] = "done"
    /\ IF request[r].endpoint = "analyze"
       THEN out[r] # <<>> /\ out[r][1].type = "response"
       ELSE HasDone(out[r])

\* The answer delivered: the response text, or the streamed fragments joined.
DeliveredAnswer(r) ==
    IF request[r].endpoint = "analyze" THEN out[r][1].data ELSE full_response(out[r])

\* C29: every analysis turn that delivers an answer, on analyze, analyze/stream
\* and predict-and-analyze/stream, has made exactly one attempt to save the
\* analysis, and the response text it gave to save is the answer delivered.
C29_OneSavePerAnalysis ==
    \A r \in Reqs :
        DeliversAnswer(r) =>
            /\ Len(SaveAttempts(r)) = 1
            /\ SaveAttempts(r)[1].analysis_response = DeliveredAnswer(r)


\* C30: the agents of all modes share the one checkpointer, so turns under one
\* thread id operate on one message log whatever their modes. A run that starts
\* on a thread starts from the log the thread has, and that log holds, in order,
\* every message of an earlier turn of another mode that ended on the thread.
C30_SharedLogAcrossModes ==
    [][\A q \in Reqs :
          (pc[q] = "none" /\ pc'[q] = "input") =>
              /\ IsPrefix(store[request'[q].thread_id], msgs'[q])
              /\ \A p \in Reqs :
                    (/\ pc[p] = "END"
                     /\ request[p].thread_id = request'[q].thread_id
                     /\ EntryPoint(request[p].endpoint) # EntryPoint(request'[q].endpoint))
                        => IsPrefix(msgs[p], msgs'[q])]_vars

\* A chat turn follows an analysis turn on the same thread: the backend call of
\* the chat turn is given the analysis of the first turn before its own prompt, and
\* the thread's log holds both turns.
C30_Witness ==
    /\ request[1].endpoint = "analyze" /\ request[1].thread_id = "s1"
    /\ request[2].endpoint = "chat" /\ request[2].thread_id = "s1"
    /\ pc[2] = "END"
    /\ \E i, j \in 1..Len(llmIn[2]) :
          /\ i < j
          /\ llmIn[2][i].type = "ai" /\ llmIn[2][i].turn = 1
          /\ llmIn[2][j].type = "human" /\ llmIn[2][j].turn = 2
    /\ IsPrefix(msgs[1], store["s1"]) /\ Last(store["s1"]).turn = 2


\* A log as the caller of the checkpointer reads it: the messages without the
\* turn the model notes on each.
Plain(log) ==
    [i \in 1..Len(log) |->
        [type |-> log[i].type, content |-> log[i].content,
         tool_calls |-> log[i].tool_calls, tool_call_id |-> log[i].tool_call_id]]

\* C28: turn execution is deterministic. With a deterministic backend and a
\* deterministic tool, the same turn run on two fresh sessions leaves the two
\* sessions with the same log: the same messages in the same order, with the same
\* content and the same tool calls and tool call ids.
C28_ReplayDeterministic ==
    (\A r \in Reqs : Ended(cpc[r]) /\ pc[r] \notin Running) =>
        Plain(store["s1"]) = Plain(store["s2"])

====
